---- MODULE Spec2Model ----
(***************************************************************************)
(* A model of pootles_utils:                                               *)
(*   watchables.py      - watchable / intWatch / enumWatch / btnWatch      *)
(*   pvars.py           - groupVar / rootVar / baseVar / intVar / enumVar  *)
(*   ptree.py           - treeob, the ordered tree the Vars are built on   *)
(*   basichttpserver.py - makepageref, httpserver, httprequh.do_GET        *)
(*   webserv.py         - runmain and the shutdown of the service          *)
(* The modules share no state, so a behaviour exercises the objects of one *)
(* module at a time; `live` says which module's objects exist.             *)
(***************************************************************************)
EXTENDS Integers, Sequences, FiniteSets, TLC

VARIABLES
    live,       \* "watchables" | "pvars" | "ptree" | "http": the module whose objects exist
    maxv,       \* intWatch.maxv  (None or Some(n))
    minv,       \* intWatch.minv  (None or Some(n))
    clamp,      \* intWatch.clamp
    _val,       \* watchable._val
    observers,  \* watchable.observers: agent -> list of callbacks
    nodes,      \* the treeob / Var objects, by object id (1 is the root)
    called,     \* the observer calls made by the most recent operation, in order
    last,       \* the most recent operation: its name, arguments and outcome
    vlist,      \* enumWatch.vlist
    wrap,       \* enumWatch.wrap
    oblock,     \* watchable.oblock: 0 when free, else the thread holding it
    pageid,     \* basichttpserver.pageid (a module global)
    server,     \* the httpserver object: serverrunning and the shutdown flags
    thr         \* the threads: what each one runs, where it is, its locals

\* the state of the enumerated watchables, and of everything threads share
enumvars == <<vlist, wrap>>
threadvars == <<oblock, pageid, server, thr>>

vars == <<live, maxv, minv, clamp, _val, observers, nodes, called, last,
          enumvars, threadvars>>

----------------------------------------------------------------------------
(* Bounds of the model *)

\* integer arguments and stored integers range over -MaxAbs..MaxAbs
MaxAbs == 1
\* the most callbacks one object holds, over all its agents
MaxObs == 2
\* the most an enumerated value's increment differs from 0
MaxInc == 2
\* the most threads that run at once (request handlers, callers of a watchable)
MaxThreads == 2
\* the most calls of makepageref one handler thread serves
MaxCalls == 2

\* update lists added to one server
MaxLists == 2

\* watchables defined for one group
MaxDefs == 2

Values == (0 - MaxAbs)..MaxAbs

\* Python's None for an optional integer, and an integer that is present
None == <<>>
Some(n) == <<n>>

\* the values the range bounds are given in the model
MinvArgs == {None, Some(0)}
MaxvArgs == {None, Some(0)}

\* observer callbacks (opaque callables; a call is recorded in `called`)
Callbacks == {"cb1", "cb2"}

\* members of the app's agentclass (myagents.app, myagents.user)
agentclass == {"app", "user"}
\* what callers pass as agent: the assertions on isinstance(agent, agentclass)
\* hold for every call of the model
WatchAgentArgs == agentclass

\* the number of registrations held in an agent -> list mapping
RECURSIVE NumRegs(_, _)
NumRegs(obs, ags) ==
    IF ags = {} THEN 0
    ELSE LET a == CHOOSE x \in ags : TRUE
         IN Len(obs[a]) + NumRegs(obs, ags \ {a})

\* a list without its element at position ix (list.pop(ix))
Pop(lst, ix) == [i \in 1..(Len(lst) - 1) |-> IF i < ix THEN lst[i] ELSE lst[i + 1]]

\* list.index(x): the first position holding x, 0 when absent (ValueError)
Index(lst, x) ==
    IF \E i \in 1..Len(lst) : lst[i] = x
    THEN CHOOSE i \in 1..Len(lst) : lst[i] = x /\ \A j \in 1..(i - 1) : lst[j] # x
    ELSE 0

\* no enumWatch exists
NoEnum == vlist = <<>> /\ wrap = FALSE

\* no thread runs and no server exists; pageid has its value at import
NoThreads ==
    /\ oblock = 0
    /\ pageid = 972
    /\ server = [serverrunning |-> FALSE]
    /\ thr = <<>>

----------------------------------------------------------------------------
(* watchables.py : watchable and intWatch *)

\* variant of intWatch.validValue that never clamps
intWatch_validValue_noclamp(value, agent) ==
    LET av == value
    IN IF (minv = None \/ av >= minv[1]) /\ (maxv = None \/ av <= maxv[1])
       THEN [exc |-> "", v |-> av]
       ELSE [exc |-> "ValueError", v |-> av]

\* intWatch.validValue: the canonical value, or ValueError
intWatch_validValue(value, agent) ==
    LET av == value    \* int(value) of an int
    IN IF clamp
       THEN IF minv # None /\ av < minv[1] THEN [exc |-> "", v |-> minv[1]]
            ELSE IF maxv # None /\ av > maxv[1] THEN [exc |-> "", v |-> maxv[1]]
            ELSE [exc |-> "", v |-> av]
       ELSE IF (minv = None \/ av >= minv[1]) /\ (maxv = None \/ av <= maxv[1])
            THEN [exc |-> "", v |-> av]
            ELSE [exc |-> "ValueError", v |-> av]

\* watchable.notify: stores the new value and calls the agent's observers.
\* `if self.observers:` is false for None and for an empty dict alike.
watchable_notify(newvalue, agent) ==
    [val    |-> newvalue,
     called |-> IF DOMAIN observers # {} /\ agent \in DOMAIN observers
                THEN LET clist == observers[agent]
                     IN [i \in 1..Len(clist) |->
                            [ob |-> clist[i], oldValue |-> _val,
                             newValue |-> newvalue, agent |-> agent]]
                ELSE <<>>]

\* variant of watchable.setValue that notifies whether or not the value differs
watchable_setValue_always(value, agent) ==
    LET r == intWatch_validValue(value, agent)
        n == watchable_notify(r.v, agent)
    IN [val |-> n.val, called |-> n.called, ret |-> "True", exc |-> ""]

\* watchable.setValue for an integer value (not a loglvls or wflags member):
\* the value stored, the calls made, and what is returned or raised
watchable_setValue(value, agent) ==
    IF agent \notin agentclass
    THEN [val |-> _val, called |-> <<>>, ret |-> "", exc |-> "AssertionError"]
    ELSE LET r == intWatch_validValue(value, agent)
         IN IF r.exc # ""
            THEN [val |-> _val, called |-> <<>>, ret |-> "", exc |-> r.exc]
            ELSE IF r.v # _val
                 THEN LET n == watchable_notify(r.v, agent)
                      IN [val |-> n.val, called |-> n.called, ret |-> "True", exc |-> ""]
                 ELSE [val |-> _val, called |-> <<>>, ret |-> "False", exc |-> ""]

\* intWatch(maxv, minv, clamp, value=...): the value is stored unvalidated,
\* observers is None (modelled as the empty mapping: addNotify builds the same
\* dict from None and from a dict without the agent)
intWatch_init ==
    /\ live = "watchables"
    /\ NoEnum /\ NoThreads
    /\ maxv \in MaxvArgs
    /\ minv \in MinvArgs
    /\ clamp \in BOOLEAN
    /\ _val \in Values
    /\ observers = <<>>
    /\ nodes = <<>>
    /\ called = <<>>
    /\ last = [op |-> "init"]

intWatch_setValue ==
    /\ live = "watchables"
    /\ \E value \in Values, agent \in WatchAgentArgs :
        LET o == watchable_setValue(value, agent)
        IN /\ _val' = o.val
           /\ called' = o.called
           /\ last' = [op |-> "setValue", value |-> value, agent |-> agent,
                       ret |-> o.ret, exc |-> o.exc]
    /\ UNCHANGED <<enumvars, threadvars, live, maxv, minv, clamp, observers, nodes>>

\* intWatch.increment: setValue(getValue()+count), returns the requested value
intWatch_increment ==
    /\ live = "watchables"
    /\ \E count \in Values, agent \in WatchAgentArgs :
        LET newval == _val + count
            o == watchable_setValue(newval, agent)
        IN /\ newval \in Values
           /\ _val' = o.val
           /\ called' = o.called
           /\ last' = [op |-> "increment", value |-> newval, agent |-> agent,
                       ret |-> IF o.exc = "" THEN Some(newval) ELSE None,
                       exc |-> o.exc]
    /\ UNCHANGED <<enumvars, threadvars, live, maxv, minv, clamp, observers, nodes>>

\* watchable.addNotify
watchable_addNotify ==
    /\ live = "watchables"
    /\ \E callback \in Callbacks, agent \in WatchAgentArgs :
        IF agent \notin agentclass
        THEN /\ last' = [op |-> "addNotify", ob |-> callback, agent |-> agent,
                         exc |-> "AssertionError"]
             /\ UNCHANGED observers
        ELSE /\ NumRegs(observers, DOMAIN observers) < MaxObs
             /\ observers' =
                  IF agent \in DOMAIN observers
                  THEN [observers EXCEPT ![agent] = Append(@, callback)]
                  ELSE [a \in DOMAIN observers \cup {agent} |->
                          IF a = agent THEN <<callback>> ELSE observers[a]]
             /\ last' = [op |-> "addNotify", ob |-> callback, agent |-> agent,
                         exc |-> ""]
    /\ called' = <<>>
    /\ UNCHANGED <<enumvars, threadvars, live, maxv, minv, clamp, _val, nodes>>

\* watchable.dropNotify: removes the first registration of callback for agent
watchable_dropNotify ==
    /\ live = "watchables"
    /\ \E callback \in Callbacks, agent \in WatchAgentArgs :
        IF DOMAIN observers = {}
        THEN /\ last' = [op |-> "dropNotify", ob |-> callback, agent |-> agent,
                         exc |-> "TypeError"]
             /\ UNCHANGED observers
        ELSE IF agent \notin DOMAIN observers
        THEN /\ last' = [op |-> "dropNotify", ob |-> callback, agent |-> agent,
                         exc |-> "KeyError"]
             /\ UNCHANGED observers
        ELSE LET aglist == observers[agent]
                 ix == Index(aglist, callback)
             IN IF ix = 0
                THEN /\ last' = [op |-> "dropNotify", ob |-> callback, agent |-> agent,
                                 exc |-> "ValueError"]
                     /\ UNCHANGED observers
                ELSE /\ observers' = [observers EXCEPT ![agent] = Pop(aglist, ix)]
                     /\ last' = [op |-> "dropNotify", ob |-> callback, agent |-> agent,
                                 exc |-> ""]
    /\ called' = <<>>
    /\ UNCHANGED <<enumvars, threadvars, live, maxv, minv, clamp, _val, nodes>>

NextWatch ==
    \/ intWatch_setValue
    \/ intWatch_increment
    \/ watchable_addNotify
    \/ watchable_dropNotify

SpecWatch == intWatch_init /\ [][NextWatch]_vars

----------------------------------------------------------------------------
(* watchables.py : enumWatch and btnWatch *)

\* the lists an enumWatch is given
WatchVlistArgs == {<<"x", "y", "z">>, <<"x", "y">>, <<"x">>}

\* the values an enumWatch is given, in its list or not
WatchEnumValues == {"x", "y", "z"}

\* observers as they are after some addNotify calls
ObserverArgs ==
    {<<>>, [a \in {"app"} |-> <<"cb1">>], [a \in {"app"} |-> <<"cb1", "cb2">>],
     [a \in {"app", "user"} |-> IF a = "app" THEN <<"cb1">> ELSE <<"cb2">>]}

\* enumWatch.validValue
enumWatch_validValue(value, agent) ==
    IF Index(vlist, value) = 0 THEN [exc |-> "ValueError", v |-> value]
    ELSE [exc |-> "", v |-> value]

\* watchable.setValue on an enumWatch
enumWatch_setValue(value, agent) ==
    IF agent \notin agentclass
    THEN [val |-> _val, called |-> <<>>, ret |-> "", exc |-> "AssertionError"]
    ELSE LET r == enumWatch_validValue(value, agent)
         IN IF r.exc # ""
            THEN [val |-> _val, called |-> <<>>, ret |-> "", exc |-> r.exc]
            ELSE IF r.v # _val
                 THEN LET n == watchable_notify(r.v, agent)
                      IN [val |-> n.val, called |-> n.called, ret |-> "True", exc |-> ""]
                 ELSE [val |-> _val, called |-> <<>>, ret |-> "False", exc |-> ""]

\* variant of the choice in enumWatch.increment that looks at clamp before wrap
enumWatch_useval_clampfirst(newi) ==
    IF clamp THEN [exc |-> "", v |-> IF newi < 0 THEN vlist[1] ELSE vlist[Len(vlist)]]
    ELSE IF wrap THEN [exc |-> "", v |-> IF newi < 0 THEN vlist[Len(vlist)] ELSE vlist[1]]
    ELSE [exc |-> "ValueError", v |-> _val]

\* the value enumWatch.increment uses for an index newi outside the list
enumWatch_useval(newi) ==
    IF wrap THEN [exc |-> "", v |-> IF newi < 0 THEN vlist[Len(vlist)] ELSE vlist[1]]
    ELSE IF clamp THEN [exc |-> "", v |-> IF newi < 0 THEN vlist[1] ELSE vlist[Len(vlist)]]
    ELSE [exc |-> "ValueError", v |-> _val]

\* enumWatch.increment(agent, inc): getIndex raises ValueError for a value
\* that is not in the list
enumWatch_increment(agent, inc) ==
    LET ix == Index(vlist, _val)
        newi == ix - 1 + inc
    IN IF ix = 0
       THEN [val |-> _val, called |-> <<>>, ret |-> "", exc |-> "ValueError"]
       ELSE IF 0 <= newi /\ newi < Len(vlist)
       THEN enumWatch_setValue(vlist[newi + 1], agent)
       ELSE LET u == enumWatch_useval(newi)
            IN IF u.exc # ""
               THEN [val |-> _val, called |-> <<>>, ret |-> "", exc |-> u.exc]
               ELSE [enumWatch_setValue(u.v, agent) EXCEPT !.ret = "None"]

\* enumWatch(vlist, wrap, clamp, value=...): the value is stored unvalidated
enumWatch_init ==
    /\ live = "watchables"
    /\ NoThreads
    /\ vlist \in WatchVlistArgs
    /\ wrap \in BOOLEAN
    /\ clamp \in BOOLEAN
    /\ _val \in WatchEnumValues
    /\ observers \in ObserverArgs
    /\ maxv = None /\ minv = None
    /\ nodes = <<>>
    /\ called = <<>>
    /\ last = [op |-> "init"]

\* w.setValue(value, agent) on an enumWatch
enumWatch_setValue_call ==
    /\ live = "watchables"
    /\ \E value \in WatchEnumValues, agent \in WatchAgentArgs :
        LET o == enumWatch_setValue(value, agent)
        IN /\ _val' = o.val
           /\ called' = o.called
           /\ last' = [op |-> "setValue", value |-> value, agent |-> agent,
                       ret |-> o.ret, exc |-> o.exc]
    /\ UNCHANGED <<enumvars, threadvars, live, maxv, minv, clamp, observers, nodes>>

\* w.increment(agent, inc) on an enumWatch
enumWatch_increment_call ==
    /\ live = "watchables"
    /\ \E inc \in (0 - MaxInc)..MaxInc, agent \in WatchAgentArgs :
        LET o == enumWatch_increment(agent, inc)
        IN /\ _val' = o.val
           /\ called' = o.called
           /\ last' = [op |-> "increment", inc |-> inc, agent |-> agent,
                       ret |-> o.ret, exc |-> o.exc]
    /\ UNCHANGED <<enumvars, threadvars, live, maxv, minv, clamp, observers, nodes>>

NextEnumWatch ==
    \/ enumWatch_setValue_call
    \/ enumWatch_increment_call

\* one enumWatch with its observers
SpecEnumWatch == enumWatch_init /\ [][NextEnumWatch]_vars

\* variant of btnWatch.setValue that notifies only for a value that differs
btnWatch_setValue_ifchanged(value, agent) ==
    IF agent \notin agentclass
    THEN [val |-> _val, called |-> <<>>, ret |-> "", exc |-> "AssertionError"]
    ELSE IF value # _val
    THEN LET n == watchable_notify(_val, agent)
         IN [val |-> n.val, called |-> n.called, ret |-> "True", exc |-> ""]
    ELSE [val |-> _val, called |-> <<>>, ret |-> "False", exc |-> ""]

\* btnWatch.setValue for a value that is no loglvls or wflags member: the
\* value is not looked at, notify is given the stored value
btnWatch_setValue(value, agent) ==
    IF agent \notin agentclass
    THEN [val |-> _val, called |-> <<>>, ret |-> "", exc |-> "AssertionError"]
    ELSE LET n == watchable_notify(_val, agent)
         IN [val |-> n.val, called |-> n.called, ret |-> "True", exc |-> ""]

\* btnWatch(value=...)
btnWatch_init ==
    /\ live = "watchables"
    /\ NoEnum /\ NoThreads
    /\ _val \in Values
    /\ observers = <<>>
    /\ maxv = None /\ minv = None /\ clamp = FALSE
    /\ nodes = <<>>
    /\ called = <<>>
    /\ last = [op |-> "init"]

\* b.setValue(value, agent) on a btnWatch
btnWatch_setValue_call ==
    /\ live = "watchables"
    /\ \E value \in Values, agent \in WatchAgentArgs :
        LET o == btnWatch_setValue(value, agent)
        IN /\ _val' = o.val
           /\ called' = o.called
           /\ last' = [op |-> "setValue", value |-> value, agent |-> agent,
                       ret |-> o.ret, exc |-> o.exc]
    /\ UNCHANGED <<enumvars, threadvars, live, maxv, minv, clamp, observers, nodes>>

NextBtn ==
    \/ btnWatch_setValue_call
    \/ watchable_addNotify
    \/ watchable_dropNotify

\* one btnWatch, its observers added and dropped
SpecBtn == btnWatch_init /\ [][NextBtn]_vars

----------------------------------------------------------------------------
(* watchables.py : addNotify and dropNotify called from several threads *)

\* the calls a thread makes on the watchable
NotifyCalls ==
    [op : {"addNotify", "dropNotify"}, ob : Callbacks, agent : agentclass]

\* variant of the lock that lets every thread in
oblock_free_always(lock) == TRUE

\* `with self.oblock:` waits until the lock is free
oblock_free(lock) == lock = 0

\* a watchable with some observers, and threads that each are about to make
\* one call on it; `last` keeps the observers they start from
threads_init ==
    /\ live = "watchables"
    /\ NoEnum
    /\ oblock = 0
    /\ pageid = 972
    /\ server = [serverrunning |-> FALSE]
    /\ observers \in ObserverArgs
    /\ thr \in [1..MaxThreads -> [pc : {"start"}, call : NotifyCalls, ix : {0}, exc : {""}]]
    /\ maxv = None /\ minv = None /\ clamp = FALSE /\ _val = 0
    /\ nodes = <<>>
    /\ called = <<>>
    /\ last = [op |-> "init", observers |-> observers]

\* a thread enters the `with self.oblock:` of its call
oblock_acquire(t) ==
    /\ live = "watchables"
    /\ thr[t].pc = "start"
    /\ oblock_free(oblock)
    /\ oblock' = t
    /\ thr' = [thr EXCEPT ![t].pc = "test"]
    /\ UNCHANGED <<enumvars, live, maxv, minv, clamp, _val, observers, nodes,
                   called, last, pageid, server>>

\* addNotify under the lock: the tests of `self.observers is None` and
\* `agent in self.observers` pick the statement to run
addNotify_test(t) ==
    /\ live = "watchables"
    /\ thr[t].pc = "test" /\ thr[t].call.op = "addNotify"
    /\ thr' = [thr EXCEPT ![t].pc =
                 IF DOMAIN observers = {} THEN "new"
                 ELSE IF thr[t].call.agent \in DOMAIN observers THEN "append"
                 ELSE "set"]
    /\ UNCHANGED <<enumvars, live, maxv, minv, clamp, _val, observers, nodes,
                   called, last, oblock, pageid, server>>

\* addNotify under the lock: the statement picked is run
addNotify_store(t) ==
    /\ live = "watchables"
    /\ thr[t].call.op = "addNotify"
    /\ LET agent == thr[t].call.agent
           callback == thr[t].call.ob
       IN \/ /\ thr[t].pc = "new"
             /\ observers' = [a \in {agent} |-> <<callback>>]
             /\ thr' = [thr EXCEPT ![t].pc = "release"]
          \/ /\ thr[t].pc = "append"
             /\ IF agent \in DOMAIN observers
                THEN /\ observers' = [observers EXCEPT ![agent] = Append(@, callback)]
                     /\ thr' = [thr EXCEPT ![t].pc = "release"]
                ELSE /\ UNCHANGED observers
                     /\ thr' = [thr EXCEPT ![t].pc = "release", ![t].exc = "KeyError"]
          \/ /\ thr[t].pc = "set"
             /\ observers' = [a \in DOMAIN observers \cup {agent} |->
                                IF a = agent THEN <<callback>> ELSE observers[a]]
             /\ thr' = [thr EXCEPT ![t].pc = "release"]
    /\ UNCHANGED <<enumvars, live, maxv, minv, clamp, _val, nodes,
                   called, last, oblock, pageid, server>>

\* dropNotify under the lock: aglist=self.observers[agent] and
\* ix=aglist.index(callback), either of which may raise
dropNotify_index(t) ==
    /\ live = "watchables"
    /\ thr[t].pc = "test" /\ thr[t].call.op = "dropNotify"
    /\ LET agent == thr[t].call.agent
           exc == IF DOMAIN observers = {} THEN "TypeError"
                  ELSE IF agent \notin DOMAIN observers THEN "KeyError"
                  ELSE IF Index(observers[agent], thr[t].call.ob) = 0 THEN "ValueError"
                  ELSE ""
       IN thr' = [thr EXCEPT ![t].pc = IF exc = "" THEN "pop" ELSE "release",
                             ![t].exc = exc,
                             ![t].ix = IF exc = "" THEN Index(observers[agent], thr[t].call.ob)
                                       ELSE 0]
    /\ UNCHANGED <<enumvars, live, maxv, minv, clamp, _val, observers, nodes,
                   called, last, oblock, pageid, server>>

\* dropNotify under the lock: aglist.pop(ix)
dropNotify_pop(t) ==
    /\ live = "watchables"
    /\ thr[t].pc = "pop"
    /\ LET agent == thr[t].call.agent
       IN IF agent \in DOMAIN observers /\ thr[t].ix <= Len(observers[agent])
          THEN /\ observers' = [observers EXCEPT ![agent] = Pop(@, thr[t].ix)]
               /\ thr' = [thr EXCEPT ![t].pc = "release"]
          ELSE /\ UNCHANGED observers
               /\ thr' = [thr EXCEPT ![t].pc = "release", ![t].exc = "IndexError"]
    /\ UNCHANGED <<enumvars, live, maxv, minv, clamp, _val, nodes,
                   called, last, oblock, pageid, server>>

\* the `with` block is left, normally or by an exception
oblock_release(t) ==
    /\ live = "watchables"
    /\ thr[t].pc = "release"
    /\ oblock' = IF oblock = t THEN 0 ELSE oblock
    /\ thr' = [thr EXCEPT ![t].pc = "done"]
    /\ UNCHANGED <<enumvars, live, maxv, minv, clamp, _val, observers, nodes,
                   called, last, pageid, server>>

NextThreads ==
    \E t \in 1..MaxThreads :
        \/ oblock_acquire(t)
        \/ addNotify_test(t)
        \/ addNotify_store(t)
        \/ dropNotify_index(t)
        \/ dropNotify_pop(t)
        \/ oblock_release(t)

\* threads calling addNotify and dropNotify on one watchable
SpecThreads == threads_init /\ [][NextThreads]_vars

----------------------------------------------------------------------------
(* watchables.py : setValue called from several threads on one intWatch *)

\* the observers the watchable has when the threads start
SetValueObservers == ObserverArgs \ {<<>>}

\* an intWatch without range whose value is 0 and which has observers, and
\* threads that each are about to call setValue once; `last` keeps the
\* values in the order they were stored, the initial value first
setValue_init ==
    /\ live = "watchables"
    /\ NoEnum
    /\ oblock = 0
    /\ pageid = 972
    /\ server = [serverrunning |-> FALSE]
    /\ observers \in SetValueObservers
    /\ thr \in [1..MaxThreads ->
                 [pc : {"start"}, value : Values, agent : WatchAgentArgs,
                  newvalue : {0}, clist : {<<>>}, oldvalue : {0}, ix : {0},
                  ret : {""}]]
    /\ maxv = None /\ minv = None /\ clamp = FALSE /\ _val = 0
    /\ nodes = <<>>
    /\ called = <<>>
    /\ last = [op |-> "init", stores |-> <<0>>]

\* setValue: newvalue=self.validValue(value, agent), then the test
\* `newvalue != self._val` reads the stored value
setValue_test(t) ==
    /\ live = "watchables"
    /\ thr[t].pc = "start"
    /\ LET r == intWatch_validValue(thr[t].value, thr[t].agent)
       IN thr' = [thr EXCEPT
                    ![t].newvalue = r.v,
                    ![t].pc = IF r.exc # "" THEN "done"
                              ELSE IF r.v # _val THEN "notify" ELSE "done",
                    ![t].ret = IF r.exc # "" THEN r.exc
                               ELSE IF r.v # _val THEN "" ELSE "False"]
    /\ UNCHANGED <<enumvars, live, maxv, minv, clamp, _val, observers, nodes,
                   called, last, oblock, pageid, server>>

\* notify: `if self.observers:` and, under oblock, the copy of the agent's
\* callback list; without observers the value is stored at once
notify_copy(t) ==
    /\ live = "watchables"
    /\ thr[t].pc = "notify"
    /\ IF DOMAIN observers # {}
       THEN /\ oblock_free(oblock)
            /\ thr' = [thr EXCEPT
                  ![t].clist = IF thr[t].agent \in DOMAIN observers
                               THEN observers[thr[t].agent] ELSE <<>>,
                  ![t].pc = "read"]
       ELSE thr' = [thr EXCEPT ![t].pc = "store"]
    /\ UNCHANGED <<enumvars, live, maxv, minv, clamp, _val, observers, nodes,
                   called, last, oblock, pageid, server>>

\* notify, after the lock is released: oldvalue=self._val
notify_read(t) ==
    /\ live = "watchables"
    /\ thr[t].pc = "read"
    /\ thr' = [thr EXCEPT ![t].oldvalue = _val, ![t].pc = "store"]
    /\ UNCHANGED <<enumvars, live, maxv, minv, clamp, _val, observers, nodes,
                   called, last, oblock, pageid, server>>

\* notify: self._val=newvalue
notify_store(t) ==
    /\ live = "watchables"
    /\ thr[t].pc = "store"
    /\ _val' = thr[t].newvalue
    /\ last' = [last EXCEPT !.stores = Append(@, thr[t].newvalue)]
    /\ thr' = [thr EXCEPT ![t].ix = Len(last.stores) + 1,
                          ![t].pc = IF thr[t].clist # <<>> THEN "call" ELSE "done",
                          ![t].ret = IF thr[t].clist # <<>> THEN "" ELSE "True"]
    /\ UNCHANGED <<enumvars, live, maxv, minv, clamp, observers, nodes,
                   called, oblock, pageid, server>>

\* notify: every callback of the copied list is called with the old and
\* the new value; setValue then returns True
notify_call(t) ==
    /\ live = "watchables"
    /\ thr[t].pc = "call"
    /\ called' = called \o
          [i \in 1..Len(thr[t].clist) |->
              [ob |-> thr[t].clist[i], oldValue |-> thr[t].oldvalue,
               newValue |-> thr[t].newvalue, agent |-> thr[t].agent,
               store |-> thr[t].ix]]
    /\ thr' = [thr EXCEPT ![t].pc = "done", ![t].ret = "True"]
    /\ UNCHANGED <<enumvars, live, maxv, minv, clamp, _val, observers, nodes,
                   last, oblock, pageid, server>>

NextSetValue ==
    \E t \in 1..MaxThreads :
        \/ setValue_test(t)
        \/ notify_copy(t)
        \/ notify_read(t)
        \/ notify_store(t)
        \/ notify_call(t)

\* threads calling setValue on one watchable
SpecSetValue == setValue_init /\ [][NextSetValue]_vars

----------------------------------------------------------------------------
(* ptree.py : treeob *)

\* the most objects a tree is built from, its root included
MaxNodes == 3
\* the most tokens in a path string given to __getitem__
MaxPathLen == 3

\* child names
Names == {"a", "b"}

\* treeob.hiernamesep
hiernamesep == "/"

\* a path string is the concatenation of tokens: the separator, '..' or a name
PathTokens == {hiernamesep, ".."} \cup Names

RECURSIVE SeqsUpTo(_, _)
SeqsUpTo(S, n) ==
    IF n = 0 THEN {<<>>}
    ELSE LET shorter == SeqsUpTo(S, n - 1)
         IN shorter \cup {Append(q, x) : q \in {r \in shorter : Len(r) = n - 1}, x \in S}

Paths == SeqsUpTo(PathTokens, MaxPathLen)

\* an object of the tree; parent = 0 is None. `items` is the OrderedDict of
\* the children: <<name, object id>> pairs in insertion order.
NewNode(cls, name, parent, app) ==
    [cls |-> cls, name |-> name, parent |-> parent, app |-> app, items |-> <<>>,
     _lvvalue |-> None, maxv |-> None, minv |-> None, clamp |-> FALSE,
     onChange |-> <<>>]

\* key in dict
HasKey(items, key) == \E i \in 1..Len(items) : items[i][1] = key

\* dict[key] of a key that is present
GetKey(items, key) == items[CHOOSE i \in 1..Len(items) : items[i][1] = key][2]

\* parent[self.name]=self on an OrderedDict: a new key is appended, an
\* existing key keeps its place and gets the new value
SetKey(items, key, val) ==
    IF HasKey(items, key)
    THEN [i \in 1..Len(items) |-> IF items[i][1] = key THEN <<key, val>> ELSE items[i]]
    ELSE Append(items, <<key, val>>)

\* treeob.__init__ with a parent: the objects after the new one is created
\* and linked from its parent. It never raises.
treeob_link(objs, node) ==
    LET id == Len(objs) + 1
    IN [i \in 1..id |->
          IF i = id THEN node
          ELSE IF i = node.parent
               THEN [objs[i] EXCEPT !.items = SetKey(@, node.name, id)]
               ELSE objs[i]]

\* str.split(hiernamesep) of the string spelled by the tokens
RECURSIVE split(_)
split(toks) ==
    IF toks = <<>> THEN <<"">>
    ELSE LET rest == split(Tail(toks))
         IN IF Head(toks) = hiernamesep
            THEN <<"">> \o rest
            ELSE <<Head(toks) \o rest[1]>> \o Tail(rest)

\* the loop of treeob.__getitem__ over the components of a path
RECURSIVE getitem_walk(_, _, _)
getitem_walk(self, cnode, splitname) ==
    IF splitname = <<>> THEN [exc |-> "", node |-> cnode]
    ELSE LET pname == Head(splitname)
         IN IF pname = ""
            THEN getitem_walk(self, nodes[self].app, Tail(splitname))
            ELSE IF cnode = 0
            THEN [exc |-> "AttributeError", node |-> 0]
            ELSE IF pname = ".."
            THEN getitem_walk(self, nodes[cnode].parent, Tail(splitname))
            ELSE IF HasKey(nodes[cnode].items, pname)
            THEN getitem_walk(self, GetKey(nodes[cnode].items, pname), Tail(splitname))
            ELSE [exc |-> "KeyError", node |-> 0]

\* treeob.__getitem__ with a string
treeob_getitem(self, nname) ==
    LET splitname == split(nname)
    IN IF Len(splitname) = 1
       THEN IF HasKey(nodes[self].items, splitname[1])
            THEN [exc |-> "", node |-> GetKey(nodes[self].items, splitname[1])]
            ELSE [exc |-> "KeyError", node |-> 0]
       ELSE getitem_walk(self, self, splitname)

\* the root treeob: name given, parent None, app itself
treeob_root ==
    /\ live = "ptree"
    /\ NoEnum /\ NoThreads
    /\ nodes = <<NewNode("treeob", "root", 0, 1)>>
    /\ maxv = None /\ minv = None /\ clamp = FALSE /\ _val = 0
    /\ observers = <<>>
    /\ called = <<>>
    /\ last = [op |-> "init"]

\* treeob(name=..., parent=..., app=parent.app)
treeob_init ==
    /\ live = "ptree"
    /\ Len(nodes) < MaxNodes
    /\ \E parent \in 1..Len(nodes), name \in Names :
        /\ nodes' = treeob_link(nodes, NewNode("treeob", name, parent, nodes[parent].app))
        /\ last' = [op |-> "treeob", name |-> name, parent |-> parent, exc |-> ""]
    /\ UNCHANGED <<enumvars, threadvars, live, maxv, minv, clamp, _val, observers, called>>

\* node[nname] for a string nname
treeob_getitem_str ==
    /\ live = "ptree"
    /\ \E self \in 1..Len(nodes), nname \in Paths :
        LET r == treeob_getitem(self, nname)
        IN last' = [op |-> "getitem", self |-> self, nname |-> nname,
                    ret |-> r.node, exc |-> r.exc]
    /\ UNCHANGED <<enumvars, threadvars, live, maxv, minv, clamp, _val, observers, nodes, called>>

\* the most a slice's start, stop and step differ from 0
MaxSlice == 2

\* what a caller passes as start, stop or step of a slice
SliceArgs == {None} \cup {Some(n) : n \in (0 - MaxSlice)..MaxSlice}

\* list(range(start, stop, step)) for a step other than 0
range(start, stop, step) ==
    LET n == IF step > 0
             THEN (IF stop > start THEN (stop - start + step - 1) \div step ELSE 0)
             ELSE (IF start > stop THEN (start - stop - step - 1) \div (0 - step) ELSE 0)
    IN [i \in 1..n |-> start + (i - 1) * step]

\* the start a slice is given by treeob.__getitem__, kl being len(keys)
slice_start(kl, start, step) ==
    IF start = None
    THEN (IF step = None \/ step[1] > 0 THEN 0 ELSE kl - 1)
    ELSE LET st == IF start[1] >= 0 THEN start[1] ELSE start[1] + kl
         IN IF st < 0 THEN 0 ELSE IF st >= kl THEN kl ELSE st

\* the stop a slice is given by treeob.__getitem__
slice_stop(kl, stop, step) ==
    IF stop = None
    THEN (IF step = None \/ step[1] > 0 THEN kl ELSE 0 - 1)
    ELSE LET sp == IF stop[1] >= 0 THEN stop[1] ELSE stop[1] + kl
         IN IF sp < 0 THEN 0 ELSE IF sp >= kl THEN kl ELSE sp

\* treeob.__getitem__ with a slice: the OrderedDict it returns, as the list
\* of its <<name, object id>> items. range() refuses a step of 0 (ValueError)
\* and keys[ix] an index outside -kl..kl-1 (IndexError).
treeob_getitem_slice(self, start, stop, step) ==
    LET keys == nodes[self].items
        kl   == Len(keys)
    IN IF step # None /\ step[1] = 0
       THEN [exc |-> "ValueError", ret |-> <<>>]
       ELSE LET rr == range(slice_start(kl, start, step), slice_stop(kl, stop, step),
                            IF step = None THEN 1 ELSE step[1])
            IN IF \E i \in 1..Len(rr) : rr[i] >= kl \/ rr[i] < 0 - kl
               THEN [exc |-> "IndexError", ret |-> <<>>]
               ELSE [exc |-> "",
                     ret |-> [i \in 1..Len(rr) |->
                                keys[(IF rr[i] >= 0 THEN rr[i] ELSE rr[i] + kl) + 1]]]

\* node[start:stop:step]
treeob_getitem_sl ==
    /\ live = "ptree"
    /\ \E self \in 1..Len(nodes), start \in SliceArgs, stop \in SliceArgs, step \in SliceArgs :
        LET r == treeob_getitem_slice(self, start, stop, step)
        IN last' = [op |-> "getslice", self |-> self, start |-> start, stop |-> stop,
                    step |-> step, ret |-> r.ret, exc |-> r.exc]
    /\ UNCHANGED <<enumvars, threadvars, live, maxv, minv, clamp, _val, observers, nodes, called>>

NextTree ==
    \/ treeob_init
    \/ treeob_getitem_str

SpecTree == treeob_root /\ [][NextTree]_vars

\* trees and the slices taken of their nodes
NextSlice ==
    \/ treeob_init
    \/ treeob_getitem_sl

SpecSlice == treeob_root /\ [][NextSlice]_vars

----------------------------------------------------------------------------
(* pvars.py : rootVar, groupVar, baseVar, intVar *)

\* rootVar.agents, the agentlist the root is created with
agentlist == <<"app", "user">>
InAgents(agent) == \E i \in 1..Len(agentlist) : agentlist[i] = agent
\* what callers pass as agent: a known agent or an unknown one
VarAgentArgs == {"app", "user", "ghost"}

\* values given to the intVar constructor: None (the default) or an int
InitValueArgs == {None} \cup {Some(v) : v \in Values}
FallbackArgs == {None, Some(0)}

IsGroup(node) == node.cls \in {"rootVar", "groupVar"}

\* variant of intVar.validValue without the range check
intVar_validValue_nocheck(self, value, agent) ==
    IF value = None THEN [exc |-> "TypeError", v |-> None]
    ELSE [exc |-> "", v |-> value]

\* intVar.validValue: int(value), then the clamp or the range check
intVar_validValue(self, value, agent) ==
    IF value = None THEN [exc |-> "TypeError", v |-> None]    \* int(None)
    ELSE LET av == value[1]
         IN IF self.clamp
            THEN IF self.minv # None /\ av < self.minv[1]
                 THEN [exc |-> "", v |-> self.minv]
                 ELSE IF self.maxv # None /\ av > self.maxv[1]
                 THEN [exc |-> "", v |-> self.maxv]
                 ELSE [exc |-> "", v |-> Some(av)]
            ELSE IF (self.minv = None \/ av >= self.minv[1])
                     /\ (self.maxv = None \/ av <= self.maxv[1])
                 THEN [exc |-> "", v |-> Some(av)]
                 ELSE [exc |-> "ValueError", v |-> None]

\* variant of baseVar.notify that does not look the agent up
baseVar_notify_allagents(self, agent, oldValue, newValue) ==
    IF DOMAIN self.onChange # {}
    THEN LET a == CHOOSE x \in DOMAIN self.onChange : TRUE
         IN [i \in 1..Len(self.onChange[a]) |->
               [ob |-> self.onChange[a][i], oldValue |-> oldValue,
                newValue |-> newValue, agent |-> agent]]
    ELSE <<>>

\* baseVar.notify: the calls made for a change by agent
baseVar_notify(self, agent, oldValue, newValue) ==
    IF agent \in DOMAIN self.onChange
    THEN [i \in 1..Len(self.onChange[agent]) |->
            [ob |-> self.onChange[agent][i], oldValue |-> oldValue,
             newValue |-> newValue, agent |-> agent]]
    ELSE <<>>

\* variant of baseVar.setValue without the check of the agent
baseVar_setValue_nocheck(self, value, agent) ==
    LET r == intVar_validValue(self, value, agent)
    IN IF r.exc # ""
       THEN [self |-> self, called |-> <<>>, ret |-> "", exc |-> r.exc]
       ELSE IF r.v = self._lvvalue
       THEN [self |-> self, called |-> <<>>, ret |-> "False", exc |-> ""]
       ELSE [self   |-> [self EXCEPT !._lvvalue = r.v],
             called |-> baseVar_notify(self, agent, self._lvvalue, r.v),
             ret |-> "True", exc |-> ""]

\* variant of baseVar.setValue that returns True for an unchanged value too
baseVar_setValue_retTrue(self, value, agent) ==
    IF InAgents(agent)
    THEN LET o == baseVar_setValue_nocheck(self, value, agent)
         IN IF o.exc = "" THEN [o EXCEPT !.ret = "True"] ELSE o
    ELSE [self |-> self, called |-> <<>>, ret |-> "", exc |-> "RuntimeError"]

\* baseVar.setValue on an intVar: the object afterwards, the calls made, and
\* what is returned or raised
baseVar_setValue(self, value, agent) ==
    IF InAgents(agent)
    THEN LET oldValue == self._lvvalue
             r == intVar_validValue(self, value, agent)
         IN IF r.exc # ""
            THEN [self |-> self, called |-> <<>>, ret |-> "", exc |-> r.exc]
            ELSE IF r.v = self._lvvalue
            THEN [self |-> self, called |-> <<>>, ret |-> "False", exc |-> ""]
            ELSE [self   |-> [self EXCEPT !._lvvalue = r.v],
                  called |-> baseVar_notify(self, agent, oldValue, r.v),
                  ret |-> "True", exc |-> ""]
    ELSE [self |-> self, called |-> <<>>, ret |-> "", exc |-> "RuntimeError"]

\* variant of baseVar.setInitialValue that tries the fallbackValue first
baseVar_setInitialValue_fallbackfirst(self, value, fallbackValue) ==
    LET first == baseVar_setValue(self, fallbackValue, agentlist[1])
        second == baseVar_setValue(self, value, agentlist[1])
    IN IF first.exc = "" THEN [self |-> first.self, exc |-> ""]
       ELSE IF second.exc = "" THEN [self |-> second.self, exc |-> ""]
       ELSE [self |-> self, exc |-> "AttributeError"]

\* baseVar.setInitialValue: the value if it is valid, else the fallbackValue;
\* if neither is, the handler's self.app.criticalreport (which rootVar does
\* not define) raises in place of the re-raise
baseVar_setInitialValue(self, value, fallbackValue) ==
    LET first == baseVar_setValue(self, value, agentlist[1])
        second == baseVar_setValue(self, fallbackValue, agentlist[1])
    IN IF first.exc = "" THEN [self |-> first.self, exc |-> ""]
       ELSE IF second.exc = "" THEN [self |-> second.self, exc |-> ""]
       ELSE [self |-> self, exc |-> "AttributeError"]

\* baseVar.addNotify(func, agents): agents is one agent name, '*' or a list of
\* agent names; the onChange mapping afterwards, or ValueError
RECURSIVE baseVar_addNotify(_, _, _)
baseVar_addNotify(onChange, func, agents) ==
    IF "str" \in DOMAIN agents
    THEN IF agents.str = "*"
         THEN baseVar_addNotify(onChange, func, [list |-> agentlist])
         ELSE IF ~InAgents(agents.str)
         THEN [onChange |-> onChange, exc |-> "ValueError"]
         ELSE [onChange |->
                 IF agents.str \in DOMAIN onChange
                 THEN [onChange EXCEPT ![agents.str] = Append(@, func)]
                 ELSE [a \in DOMAIN onChange \cup {agents.str} |->
                         IF a = agents.str THEN <<func>> ELSE onChange[a]],
               exc |-> ""]
    ELSE IF agents.list = <<>>
    THEN [onChange |-> onChange, exc |-> ""]
    ELSE LET one == baseVar_addNotify(onChange, func, [str |-> Head(agents.list)])
         IN IF one.exc # "" THEN one
            ELSE baseVar_addNotify(one.onChange, func, [list |-> Tail(agents.list)])

\* baseVar.removeNotify(func, agents)
RECURSIVE baseVar_removeNotify(_, _, _)
baseVar_removeNotify(onChange, func, agents) ==
    IF "str" \in DOMAIN agents
    THEN IF agents.str = "*"
         THEN baseVar_removeNotify(onChange, func, [list |-> agentlist])
         ELSE IF ~InAgents(agents.str)
         THEN [onChange |-> onChange, exc |-> "ValueError"]
         ELSE IF agents.str \notin DOMAIN onChange
         THEN [onChange |-> onChange, exc |-> "KeyError"]
         ELSE LET flist == onChange[agents.str]
                  find == Index(flist, func)
              IN IF find = 0
                 THEN [onChange |-> onChange, exc |-> "ValueError"]
                 ELSE [onChange |-> [onChange EXCEPT ![agents.str] = Pop(flist, find)],
                       exc |-> ""]
    ELSE IF agents.list = <<>>
    THEN [onChange |-> onChange, exc |-> ""]
    ELSE LET one == baseVar_removeNotify(onChange, func, [str |-> Head(agents.list)])
         IN IF one.exc # "" THEN one
            ELSE baseVar_removeNotify(one.onChange, func, [list |-> Tail(agents.list)])

\* baseVar.__init__ after the object is set up: the initial value is set,
\* then the onChange (func, agents) pair, if given, is registered
baseVar_init(fresh, value, fallbackValue, onChange) ==
    LET r == baseVar_setInitialValue(fresh, value, fallbackValue)
    IN IF r.exc # "" \/ onChange = None THEN r
       ELSE LET n == baseVar_addNotify(r.self.onChange, onChange[1], onChange[2])
            IN [self |-> [r.self EXCEPT !.onChange = n.onChange], exc |-> n.exc]

\* the agents arguments given to addNotify and removeNotify
NotifyAgentArgs ==
    {[str |-> a] : a \in VarAgentArgs \cup {"*"}}

\* variant of groupVar.getValue that lists the children last to first
RECURSIVE groupVar_getValue_reversed(_, _)
groupVar_getValue_reversed(objs, self) ==
    LET its == objs[self].items
        n == Len(its)
    IN [i \in 1..n |->
          LET it == its[n + 1 - i]
          IN <<it[1],
               IF IsGroup(objs[it[2]])
               THEN [dict |-> groupVar_getValue_reversed(objs, it[2])]
               ELSE [leaf |-> objs[it[2]]._lvvalue]>>]

\* groupVar.getValue: the <<name, value>> pairs of the children in the order
\* of the OrderedDict; a leaf's value is its _lvvalue, a group's its own pairs
RECURSIVE groupVar_getValue(_, _)
groupVar_getValue(objs, self) ==
    LET its == objs[self].items
    IN [i \in 1..Len(its) |->
          <<its[i][1],
            IF IsGroup(objs[its[i][2]])
            THEN [dict |-> groupVar_getValue(objs, its[i][2])]
            ELSE [leaf |-> objs[its[i][2]]._lvvalue]>>]

\* groupVar.setValue(value, agent): for each (n, v) of the mapping it asserts
\* n in self and calls self.setValue(v, agent), its own setValue, not the
\* child's: an int v has no items() (AttributeError), a mapping v is applied
\* to self again. No object is changed; only the exception differs.
RECURSIVE groupVar_setValue(_, _, _)
groupVar_setValue(self, value, agent) ==
    IF ~InAgents(agent) THEN "RuntimeError"
    ELSE IF "leaf" \in DOMAIN value THEN "AttributeError"
    ELSE IF value.dict = <<>> THEN ""
    ELSE LET n == Head(value.dict)[1]
             v == Head(value.dict)[2]
         IN IF ~HasKey(self.items, n) THEN "AssertionError"
            ELSE LET inner == groupVar_setValue(self, v, agent)
                 IN IF inner # "" THEN inner
                    ELSE groupVar_setValue(self, [dict |-> Tail(value.dict)], agent)

\* the mappings given to groupVar.setValue: each name absent or mapped to an
\* int or to a mapping
GroupValueArgs ==
    {[dict |-> <<>>]}
    \cup {[dict |-> <<<<n, [leaf |-> Some(1)]>>>>] : n \in Names}
    \cup {[dict |-> <<<<"a", [leaf |-> Some(1)]>>, <<"b", [leaf |-> Some(0)]>>>>],
          [dict |-> <<<<"a", [dict |-> <<>>]>>>>],
          [dict |-> <<<<"a", [dict |-> <<<<"a", [leaf |-> Some(1)]>>>>]>>>>]}

\* the childdefs a rootVar is created with in the model: intVars with the
\* default range (unbounded, no clamp) and groupVars with childdefs of their own
LeafDef(name, v) == [cls |-> "intVar", name |-> name, value |-> Some(v), onChange |-> None]
WatchedLeafDef(name, v) ==
    [cls |-> "intVar", name |-> name, value |-> Some(v),
     onChange |-> <<"cb1", [str |-> "app"]>>]
GroupDef(name, defs) == [cls |-> "groupVar", name |-> name, childdefs |-> defs]
ChildDefArgs ==
    {<<WatchedLeafDef("a", v)>> : v \in {0, 1}}
    \cup {<<LeafDef("a", v), LeafDef("b", w)>> : v \in {0, 1}, w \in {0, 1}}
    \cup {<<LeafDef("b", v), WatchedLeafDef("a", w)>> : v \in {0, 1}, w \in {0, 1}}
    \cup {<<GroupDef("a", <<LeafDef(n, v)>>)>> : n \in Names, v \in {0, 1}}
    \cup {<<GroupDef("b", <<>>), LeafDef("a", v)>> : v \in {0, 1}}
    \cup {<<LeafDef("b", v), GroupDef("a", <<LeafDef("b", w)>>)>> : v \in {0, 1}, w \in {0, 1}}
    \cup {<<LeafDef("a", 0), LeafDef("b", 0), LeafDef("a", 1)>>}

\* treeob.__init__'s loop over childdefs with groupVar.makeChild: each child is
\* created with parent=self and app=self.app, a groupVar with its own childdefs
RECURSIVE treeob_childdefs(_, _, _)
treeob_childdefs(objs, self, childdefs) ==
    IF childdefs = <<>> THEN objs
    ELSE LET cdef == Head(childdefs)
             id == Len(objs) + 1
             made ==
               IF cdef.cls = "intVar"
               THEN treeob_link(objs,
                      baseVar_init(
                         NewNode("intVar", cdef.name, self, objs[self].app),
                         cdef.value, None, cdef.onChange).self)
               ELSE treeob_childdefs(
                      treeob_link(objs, NewNode("groupVar", cdef.name, self, objs[self].app)),
                      id, cdef.childdefs)
         IN treeob_childdefs(made, self, Tail(childdefs))

\* rootVar(agentlist=..., name=..., parent=None, app=None, childdefs=...)
rootVar_init ==
    /\ live = "pvars"
    /\ NoEnum /\ NoThreads
    /\ \E childdefs \in ChildDefArgs :
         nodes = treeob_childdefs(<<NewNode("rootVar", "root", 0, 1)>>, 1, childdefs)
    /\ maxv = None /\ minv = None /\ clamp = FALSE /\ _val = 0
    /\ observers = <<>>
    /\ called = <<>>
    /\ last = [op |-> "init"]

\* a rootVar and, under it, intVar(maxv, minv, clamp, name='a', parent=root,
\* app=root, value=..., fallbackValue=...): the object is linked from its
\* parent before its value is set, so it stays linked when the constructor raises
intVar_init ==
    /\ live = "pvars"
    /\ NoEnum /\ NoThreads
    /\ \E mx \in MaxvArgs, mn \in MinvArgs, cl \in BOOLEAN,
          value \in InitValueArgs, fallbackValue \in FallbackArgs :
        LET fresh == [NewNode("intVar", "a", 1, 1)
                        EXCEPT !.maxv = mx, !.minv = mn, !.clamp = cl]
            r == baseVar_init(fresh, value, fallbackValue, None)
        IN /\ nodes = treeob_link(<<NewNode("rootVar", "root", 0, 1)>>, r.self)
           /\ last = [op |-> "intVar", self |-> 2, value |-> value,
                      fallbackValue |-> fallbackValue, exc |-> r.exc]
    /\ maxv = None /\ minv = None /\ clamp = FALSE /\ _val = 0
    /\ observers = <<>>
    /\ called = <<>>

\* var.setValue(value, agent) on an intVar
intVar_setValue ==
    /\ live = "pvars"
    /\ \E self \in {n \in 1..Len(nodes) : nodes[n].cls = "intVar"},
          value \in Values, agent \in VarAgentArgs :
        LET o == baseVar_setValue(nodes[self], Some(value), agent)
        IN /\ nodes' = [nodes EXCEPT ![self] = o.self]
           /\ called' = o.called
           /\ last' = [op |-> "setValue", self |-> self, value |-> value,
                       agent |-> agent, ret |-> o.ret, exc |-> o.exc]
    /\ UNCHANGED <<enumvars, threadvars, live, maxv, minv, clamp, _val, observers>>

\* intVar.increment(agent, count): setValue(getValue()+count, agent)
intVar_increment ==
    /\ live = "pvars"
    /\ \E self \in {n \in 1..Len(nodes) : nodes[n].cls = "intVar"},
          count \in Values, agent \in VarAgentArgs :
        IF nodes[self]._lvvalue = None
        THEN /\ last' = [op |-> "increment", self |-> self, value |-> count,
                         agent |-> agent, ret |-> "", exc |-> "TypeError"]
             /\ called' = <<>>
             /\ UNCHANGED nodes
        ELSE LET newval == nodes[self]._lvvalue[1] + count
                 o == baseVar_setValue(nodes[self], Some(newval), agent)
             IN /\ newval \in Values
                /\ nodes' = [nodes EXCEPT ![self] = o.self]
                /\ called' = o.called
                /\ last' = [op |-> "increment", self |-> self, value |-> newval,
                            agent |-> agent, ret |-> "None", exc |-> o.exc]
    /\ UNCHANGED <<enumvars, threadvars, live, maxv, minv, clamp, _val, observers>>

\* var.addNotify(func, agents)
intVar_addNotify ==
    /\ live = "pvars"
    /\ \E self \in {n \in 1..Len(nodes) : nodes[n].cls = "intVar"},
          func \in Callbacks, agents \in NotifyAgentArgs :
        LET r == baseVar_addNotify(nodes[self].onChange, func, agents)
        IN /\ NumRegs(r.onChange, DOMAIN r.onChange) <= MaxObs
           /\ nodes' = [nodes EXCEPT ![self].onChange = r.onChange]
           /\ last' = [op |-> "addNotify", self |-> self, ob |-> func,
                       agents |-> agents, exc |-> r.exc]
    /\ called' = <<>>
    /\ UNCHANGED <<enumvars, threadvars, live, maxv, minv, clamp, _val, observers>>

\* var.removeNotify(func, agents)
intVar_removeNotify ==
    /\ live = "pvars"
    /\ \E self \in {n \in 1..Len(nodes) : nodes[n].cls = "intVar"},
          func \in Callbacks, agents \in NotifyAgentArgs :
        LET r == baseVar_removeNotify(nodes[self].onChange, func, agents)
        IN /\ nodes' = [nodes EXCEPT ![self].onChange = r.onChange]
           /\ last' = [op |-> "removeNotify", self |-> self, ob |-> func,
                       agents |-> agents, exc |-> r.exc]
    /\ called' = <<>>
    /\ UNCHANGED <<enumvars, threadvars, live, maxv, minv, clamp, _val, observers>>

\* group.setValue(value, agent) with a mapping
groupVar_setValue_map ==
    /\ live = "pvars"
    /\ \E self \in {n \in 1..Len(nodes) : IsGroup(nodes[n])},
          value \in GroupValueArgs, agent \in VarAgentArgs :
        last' = [op |-> "groupSetValue", self |-> self, value |-> value,
                 agent |-> agent, exc |-> groupVar_setValue(nodes[self], value, agent)]
    /\ called' = <<>>
    /\ UNCHANGED <<enumvars, threadvars, live, maxv, minv, clamp, _val, observers, nodes>>

\* group.getValue()
groupVar_getValue_call ==
    /\ live = "pvars"
    /\ \E self \in {n \in 1..Len(nodes) : IsGroup(nodes[n])} :
        last' = [op |-> "getValue", self |-> self,
                 ret |-> groupVar_getValue(nodes, self)]
    /\ called' = <<>>
    /\ UNCHANGED <<enumvars, threadvars, live, maxv, minv, clamp, _val, observers, nodes>>

NextVars ==
    \/ intVar_setValue
    \/ intVar_increment
    \/ intVar_addNotify
    \/ intVar_removeNotify

\* one intVar under a rootVar
SpecVars == intVar_init /\ [][NextVars]_vars

NextGroup ==
    \/ intVar_setValue
    \/ groupVar_setValue_map
    \/ groupVar_getValue_call

\* a tree of groupVars and intVars created from childdefs
SpecGroup == rootVar_init /\ [][NextGroup]_vars

\* both generations: the objects of one of them are created, then used
Init == intWatch_init \/ intVar_init
Next == NextWatch \/ NextVars
Spec == Init /\ [][Next]_vars

----------------------------------------------------------------------------
(* pvars.py : enumVar *)

\* values an enumVar handles: a string, an int, or None
EStr(s) == [str |-> s]
EInt(n) == [int |-> n]
ENone == [none |-> TRUE]
IsInt(v) == "int" \in DOMAIN v

\* the lists an enumVar is given: lists of strings and lists of ints
VlistArgs ==
    {<<EStr("x"), EStr("y"), EStr("z")>>, <<EStr("x"), EStr("y")>>,
     <<EInt(1), EInt(0)>>, <<EInt(2), EInt(0)>>}

\* the modes an enumVar is given (any other mode makes the constructor raise
\* ValueError before the object is set up)
ModeArgs == {"clamp", "wrap", "abs"}

\* the values given to an enumVar as value or fallbackValue
EnumValueArgs == {ENone, EStr("x"), EStr("y"), EStr("z"), EInt(0)}

\* lst[i] of a Python list: positions count from 0, a negative i counts from
\* the end, anything else is an IndexError
PyItem(lst, i) ==
    IF i >= 0 /\ i < Len(lst) THEN [exc |-> "", v |-> lst[i + 1]]
    ELSE IF i < 0 /\ i >= 0 - Len(lst) THEN [exc |-> "", v |-> lst[i + Len(lst) + 1]]
    ELSE [exc |-> "IndexError", v |-> ENone]

\* an enumVar object: a Var with its list and mode
NewEnum(name, parent, app, vl, mode) ==
    [cls |-> "enumVar", name |-> name, parent |-> parent, app |-> app, items |-> <<>>,
     _lvvalue |-> vl[1], maxv |-> None, minv |-> None, clamp |-> FALSE,
     onChange |-> <<>>, vlist |-> vl, mode |-> mode]

\* enumVar.validValue: the index of the value in vlist
enumVar_validValue(self, value, agent) ==
    LET ix == Index(self.vlist, value)
    IN IF ix = 0 THEN [exc |-> "ValueError", v |-> ENone]
       ELSE [exc |-> "", v |-> EInt(ix - 1)]

\* enumVar.getValue: vlist[_lvvalue], or vlist[0] when _lvvalue is no index
enumVar_getValue(self) ==
    IF IsInt(self._lvvalue) THEN PyItem(self.vlist, self._lvvalue.int)
    ELSE [exc |-> "", v |-> self.vlist[1]]

\* baseVar.setValue on an enumVar
enumVar_setValue(self, value, agent) ==
    IF InAgents(agent)
    THEN LET oldValue == enumVar_getValue(self)
             r == enumVar_validValue(self, value, agent)
         IN IF oldValue.exc # ""
            THEN [self |-> self, called |-> <<>>, ret |-> "", exc |-> oldValue.exc]
            ELSE IF r.exc # ""
            THEN [self |-> self, called |-> <<>>, ret |-> "", exc |-> r.exc]
            ELSE IF r.v = self._lvvalue
            THEN [self |-> self, called |-> <<>>, ret |-> "False", exc |-> ""]
            ELSE [self   |-> [self EXCEPT !._lvvalue = r.v],
                  called |-> baseVar_notify(self, agent, oldValue.v, r.v),
                  ret |-> "True", exc |-> ""]
    ELSE [self |-> self, called |-> <<>>, ret |-> "", exc |-> "RuntimeError"]

\* baseVar.setInitialValue on an enumVar
enumVar_setInitialValue(self, value, fallbackValue) ==
    LET first == enumVar_setValue(self, value, agentlist[1])
        second == enumVar_setValue(self, fallbackValue, agentlist[1])
    IN IF first.exc = "" THEN [self |-> first.self, exc |-> ""]
       ELSE IF second.exc = "" THEN [self |-> second.self, exc |-> ""]
       ELSE [self |-> self, exc |-> "AttributeError"]

\* the choice of the new index in enumVar.increment
enumVar_newind(self, incval) ==
    LET newind == self._lvvalue.int + incval
    IN IF newind < Len(self.vlist) THEN [exc |-> "", v |-> newind]
       ELSE IF self.mode = "abs" THEN [exc |-> "ValueError", v |-> newind]
       ELSE IF self.mode = "clamp" THEN [exc |-> "", v |-> Len(self.vlist) - 1]
       ELSE [exc |-> "", v |-> newind % Len(self.vlist)]

\* enumVar.increment(incval, agent)
enumVar_increment(self, incval, agent) ==
    IF ~IsInt(self._lvvalue)
    THEN [self |-> self, called |-> <<>>, ret |-> "", exc |-> "TypeError"]
    ELSE LET n == enumVar_newind(self, incval)
             item == PyItem(self.vlist, n.v)
         IN IF n.exc # ""
            THEN [self |-> self, called |-> <<>>, ret |-> "", exc |-> n.exc]
            ELSE IF item.exc # ""
            THEN [self |-> self, called |-> <<>>, ret |-> "", exc |-> item.exc]
            ELSE enumVar_setValue(self, item.v, agent)

\* enumVar.setVlist(vlist, agent)
enumVar_setVlist(self, vl, agent) ==
    IF vl = self.vlist
    THEN [self |-> self, called |-> <<>>, ret |-> "False", exc |-> ""]
    ELSE LET oldval == enumVar_getValue(self)
             replaced == [self EXCEPT !.vlist = vl]
             found == Index(vl, oldval.v)
             newi == IF found = 0 THEN 0 ELSE found - 1
             o == enumVar_setValue(replaced, vl[newi + 1], agent)
         IN IF oldval.exc # ""
            THEN [self |-> self, called |-> <<>>, ret |-> "", exc |-> oldval.exc]
            ELSE IF o.exc # "" THEN o
            ELSE IF o.ret = "False"
            THEN [o EXCEPT !.called = baseVar_notify(replaced, agent, oldval.v, vl[newi + 1]),
                           !.ret = "True"]
            ELSE [o EXCEPT !.ret = "True"]

\* a rootVar and, under it, enumVar(name='e', vlist=..., mode=..., value=...,
\* fallbackValue=..., onChange=..., parent=root, app=root)
enumVar_init ==
    /\ live = "pvars"
    /\ NoEnum /\ NoThreads
    /\ \E vl \in VlistArgs, mode \in ModeArgs, value \in EnumValueArgs,
          fallbackValue \in {ENone, EStr("y")},
          onChange \in {None, <<"cb1", [str |-> "app"]>>} :
        LET fresh == NewEnum("e", 1, 1, vl, mode)
            fb == IF fallbackValue = ENone THEN vl[1] ELSE fallbackValue
            r == enumVar_setInitialValue(fresh, value, fb)
            made == IF r.exc # "" \/ onChange = None THEN r.self
                    ELSE [r.self EXCEPT !.onChange =
                            baseVar_addNotify(@, onChange[1], onChange[2]).onChange]
        IN /\ nodes = treeob_link(<<NewNode("rootVar", "root", 0, 1)>>, made)
           /\ last = [op |-> "enumVar", self |-> 2, value |-> value,
                      fallbackValue |-> fb, exc |-> r.exc]
    /\ maxv = None /\ minv = None /\ clamp = FALSE /\ _val = 0
    /\ observers = <<>>
    /\ called = <<>>

\* var.setValue(value, agent) on an enumVar
enumVar_setValue_call ==
    /\ live = "pvars"
    /\ \E self \in {n \in 1..Len(nodes) : nodes[n].cls = "enumVar"},
          value \in EnumValueArgs, agent \in VarAgentArgs :
        LET o == enumVar_setValue(nodes[self], value, agent)
        IN /\ nodes' = [nodes EXCEPT ![self] = o.self]
           /\ called' = o.called
           /\ last' = [op |-> "enumSetValue", self |-> self, value |-> value,
                       agent |-> agent, ret |-> o.ret, exc |-> o.exc]
    /\ UNCHANGED <<enumvars, threadvars, live, maxv, minv, clamp, _val, observers>>

\* var.increment(incval, agent) on an enumVar
enumVar_increment_call ==
    /\ live = "pvars"
    /\ \E self \in {n \in 1..Len(nodes) : nodes[n].cls = "enumVar"},
          incval \in (0 - MaxInc)..MaxInc, agent \in VarAgentArgs :
        LET o == enumVar_increment(nodes[self], incval, agent)
        IN /\ nodes' = [nodes EXCEPT ![self] = o.self]
           /\ called' = o.called
           /\ last' = [op |-> "enumIncrement", self |-> self, incval |-> incval,
                       agent |-> agent, ret |-> o.ret, exc |-> o.exc]
    /\ UNCHANGED <<enumvars, threadvars, live, maxv, minv, clamp, _val, observers>>

\* var.setVlist(vlist, agent) on an enumVar
enumVar_setVlist_call ==
    /\ live = "pvars"
    /\ \E self \in {n \in 1..Len(nodes) : nodes[n].cls = "enumVar"},
          vl \in VlistArgs, agent \in VarAgentArgs :
        LET o == enumVar_setVlist(nodes[self], vl, agent)
        IN /\ nodes' = [nodes EXCEPT ![self] = o.self]
           /\ called' = o.called
           /\ last' = [op |-> "setVlist", self |-> self, vlist |-> vl,
                       agent |-> agent, ret |-> o.ret, exc |-> o.exc]
    /\ UNCHANGED <<enumvars, threadvars, live, maxv, minv, clamp, _val, observers>>

NextEnum ==
    \/ enumVar_setValue_call
    \/ enumVar_increment_call
    \/ enumVar_setVlist_call

\* one enumVar under a root
SpecEnum == enumVar_init /\ [][NextEnum]_vars

\* the constructors of the Vars and the first operations on the new object
NextCtor ==
    \/ intVar_setValue
    \/ intVar_increment
    \/ enumVar_setValue_call
    \/ enumVar_increment_call

SpecCtor == (intVar_init \/ enumVar_init) /\ [][NextCtor]_vars

----------------------------------------------------------------------------
(* watchables.py : watchablegroup, of a class that provides agentclass and *)
(* log (as watchablesmart does), with intWatch children without range      *)

\* the names given to watchables
WableNames == {"a", "a1", "ab"}

\* the entries 0, 2 and 3 of a definition: name, default value and whether
\* fetchsettings returns the watchable (entry 1 is intWatch, entry 4 empty)
WableDefs == [name : WableNames, default : {0, 1}, pers : BOOLEAN]

\* the definition lists: up to MaxDefs definitions with distinct names
WabledefsArgs ==
    {ds \in UNION {[1..n -> WableDefs] : n \in 1..MaxDefs} :
        \A x, y \in 1..Len(ds) : x # y => ds[x].name # ds[y].name}

\* the saved settings given to the constructor: None, or a dict that has a
\* value for the first watchable only
WableValueArgs(wabledefs) ==
    {ENone} \cup {[dict |-> <<<<wabledefs[1].name, v>>>>] : v \in {0 - 1}}

\* watchablegroup.__init__: one child per definition, with the saved value if
\* there is one and the default otherwise
watchablegroup(value, wabledefs) ==
    [x \in 1..Len(wabledefs) |->
        [name |-> wabledefs[x].name,
         pers |-> wabledefs[x].pers,
         _val |-> IF value = ENone THEN wabledefs[x].default
                  ELSE IF HasKey(value.dict, wabledefs[x].name)
                  THEN GetKey(value.dict, wabledefs[x].name)
                  ELSE wabledefs[x].default]]

\* self.perslist, kept as the flag of each child: is k a name in it?
InPerslist(group, k) ==
    \E x \in 1..Len(group) : group[x].pers /\ group[x].name = k

\* the child that getattr(self, k) gives
Getattr(group, k) == CHOOSE x \in 1..Len(group) : group[x].name = k

\* watchablegroup.fetchsettings: the dict {kv: getattr(self,kv).getValue()
\* for kv in self.perslist}, as <<key, value>> items
RECURSIVE watchablegroup_fetchsettings(_)
watchablegroup_fetchsettings(group) ==
    IF group = <<>> THEN <<>>
    ELSE (IF Head(group).pers THEN <<<<Head(group).name, Head(group)._val>>>>
          ELSE <<>>) \o watchablegroup_fetchsettings(Tail(group))

\* int(v) of a one-character string, as intWatch.validValue calls it
int_str(v) ==
    IF v = "0" THEN [exc |-> "", v |-> 0]
    ELSE IF v = "1" THEN [exc |-> "", v |-> 1]
    ELSE [exc |-> "ValueError", v |-> 0]

\* watchablegroup.applysettings: `for k,v in settings` iterates the keys of
\* the dict and unpacks each key, a string, into k and v: a key of two
\* characters gives its characters, any other length raises ValueError;
\* then setValue(v, agent) is called on the child k if k is in perslist
RECURSIVE watchablegroup_applysettings(_, _, _)
watchablegroup_applysettings(group, settings, agent) ==
    IF settings = <<>> THEN [group |-> group, exc |-> ""]
    ELSE LET key == Head(settings)[1]
         IN IF Len(key) # 2 THEN [group |-> group, exc |-> "ValueError"]
            ELSE LET k == SubSeq(key, 1, 1)
                     v == SubSeq(key, 2, 2)
                 IN IF InPerslist(group, k)
                    THEN IF int_str(v).exc # ""
                         THEN [group |-> group, exc |-> int_str(v).exc]
                         ELSE watchablegroup_applysettings(
                                  [group EXCEPT ![Getattr(group, k)]._val = int_str(v).v],
                                  Tail(settings), agent)
                    ELSE watchablegroup_applysettings(group, Tail(settings), agent)

\* a group has been constructed; its children are kept in nodes
watchablegroup_init ==
    /\ live = "watchables"
    /\ NoEnum
    /\ NoThreads
    /\ \E wabledefs \in WabledefsArgs : \E value \in WableValueArgs(wabledefs) :
          nodes = watchablegroup(value, wabledefs)
    /\ maxv = None /\ minv = None /\ clamp = FALSE /\ _val = 0
    /\ observers = <<>>
    /\ called = <<>>
    /\ last = [op |-> "init"]

\* a caller sets the value of one watchable of the group
watchablegroup_setValue ==
    /\ live = "watchables"
    /\ \E x \in 1..Len(nodes), value \in Values, agent \in WatchAgentArgs :
          /\ nodes' = [nodes EXCEPT ![x]._val = value]
          /\ last' = [op |-> "setValue", name |-> nodes[x].name,
                      changed |-> value # nodes[x]._val]
    /\ UNCHANGED <<enumvars, threadvars, live, maxv, minv, clamp, _val,
                   observers, called>>

\* the settings are fetched and applied to the same group
watchablegroup_roundtrip ==
    /\ live = "watchables"
    /\ \E agent \in WatchAgentArgs :
          LET settings == watchablegroup_fetchsettings(nodes)
              r == watchablegroup_applysettings(nodes, settings, agent)
          IN /\ nodes' = r.group
             /\ last' = [op |-> "applysettings", settings |-> settings,
                         exc |-> r.exc, before |-> nodes]
    /\ UNCHANGED <<enumvars, threadvars, live, maxv, minv, clamp, _val,
                   observers, called>>

NextSettings ==
    \/ watchablegroup_setValue
    \/ watchablegroup_roundtrip

\* a watchablegroup whose settings are fetched and applied
SpecSettings == watchablegroup_init /\ [][NextSettings]_vars

----------------------------------------------------------------------------
(* basichttpserver.py : makepageref *)

Threads == 1..MaxThreads

\* str(n) of a positive int, as the list of its decimal digits
RECURSIVE str(_)
str(n) == IF n < 10 THEN <<n>> ELSE Append(str(n \div 10), n % 10)

\* the handler threads of a threaded server, none serving a request; each
\* will serve 'makedynampage' requests, which call makepageref
makepageref_init ==
    /\ live = "http"
    /\ NoEnum
    /\ oblock = 0
    /\ pageid = 972
    /\ server = [serverrunning |-> TRUE]
    /\ thr = [t \in Threads |-> [pc |-> "idle", tmp |-> 0, refs |-> <<>>]]
    /\ maxv = None /\ minv = None /\ clamp = FALSE /\ _val = 0
    /\ observers = <<>>
    /\ nodes = <<>>
    /\ called = <<>>
    /\ last = [op |-> "init"]

\* do_GET of a 'makedynampage' request reaches makepageref()
makepageref_call(t) ==
    /\ live = "http"
    /\ thr[t].pc = "idle"
    /\ Len(thr[t].refs) < MaxCalls
    /\ thr' = [thr EXCEPT ![t].pc = "load"]
    /\ UNCHANGED <<enumvars, live, maxv, minv, clamp, _val, observers, nodes,
                   called, last, oblock, pageid, server>>

\* pageid +=1, first half: the global is read
makepageref_load(t) ==
    /\ live = "http"
    /\ thr[t].pc = "load"
    /\ thr' = [thr EXCEPT ![t].pc = "store", ![t].tmp = pageid]
    /\ UNCHANGED <<enumvars, live, maxv, minv, clamp, _val, observers, nodes,
                   called, last, oblock, pageid, server>>

\* pageid +=1, second half: the sum is stored in the global
makepageref_store(t) ==
    /\ live = "http"
    /\ thr[t].pc = "store"
    /\ pageid' = thr[t].tmp + 1
    /\ thr' = [thr EXCEPT ![t].pc = "return"]
    /\ UNCHANGED <<enumvars, live, maxv, minv, clamp, _val, observers, nodes,
                   called, last, oblock, server>>

\* return str(pageid): the global is read again
makepageref_return(t) ==
    /\ live = "http"
    /\ thr[t].pc = "return"
    /\ thr' = [thr EXCEPT ![t].pc = "idle", ![t].refs = Append(@, str(pageid))]
    /\ last' = [op |-> "makepageref", thread |-> t, ret |-> str(pageid)]
    /\ UNCHANGED <<enumvars, live, maxv, minv, clamp, _val, observers, nodes,
                   called, oblock, pageid, server>>

NextPage ==
    \E t \in Threads :
        \/ makepageref_call(t)
        \/ makepageref_load(t)
        \/ makepageref_store(t)
        \/ makepageref_return(t)

\* request-handler threads calling makepageref
SpecPage == makepageref_init /\ [][NextPage]_vars

----------------------------------------------------------------------------
(* webserv.py : runmain in normal mode; basichttpserver.py : httpserver,   *)
(* the 'listchecker' runner and the streaming branches of do_GET           *)

\* the request types whose handler loops until the server stops
StreamTypes == {"updatestream", "camstream"}

\* variant of the assignment in httpserver.close that leaves the flag set
httpserver_close_noflag(srv) == srv

\* httpserver.close: self.serverrunning=False
httpserver_close_flag(srv) == [srv EXCEPT !.serverrunning = FALSE]

\* httpserver.__init__: the flag is set, there is no update list, slock is
\* free ("") and the 'listchecker' thread has been started; main and sthread
\* are the positions of runmain and of serve_forever. lists holds the
\* pageupdatelist objects made so far, activeupdates the dict as
\* <<pageid, index in lists>> items, deadlist the runner's local list
httpserver_new ==
    [serverrunning |-> TRUE, shutdown_request |-> FALSE,
     is_shut_down |-> FALSE, appclosed |-> FALSE,
     activeupdates |-> <<>>, slock |-> "", lists |-> <<>>, deadlist |-> <<>>,
     main |-> "join", sthread |-> "serve", listchecker |-> "while"]

\* runmain has created the server (whose __init__ started 'listchecker'),
\* started serve_forever in sthread, and waits in sthread.join
runmain_init ==
    /\ live = "http"
    /\ NoEnum
    /\ oblock = 0
    /\ pageid = 972
    /\ server = httpserver_new
    /\ thr = [t \in Threads |-> [pc |-> "idle", type |-> "", running |-> FALSE]]
    /\ maxv = None /\ minv = None /\ clamp = FALSE /\ _val = 0
    /\ observers = <<>>
    /\ nodes = <<>>
    /\ called = <<>>
    /\ last = [op |-> "init"]

\* KeyboardInterrupt (or another exception) while runmain waits in join
runmain_interrupt ==
    /\ live = "http"
    /\ server.main = "join"
    /\ server' = [server EXCEPT !.main = "close"]
    /\ UNCHANGED <<enumvars, live, maxv, minv, clamp, _val, observers, nodes,
                   called, last, oblock, pageid, thr>>

\* server.close(), step by step: the app is closed (a crash of app.close is
\* logged and ignored), the flag is cleared, shutdown() asks serve_forever
\* to stop and waits until it has
httpserver_close ==
    /\ live = "http"
    /\ \/ /\ server.main = "close"
          /\ server' = [server EXCEPT !.appclosed = TRUE, !.main = "flag"]
       \/ /\ server.main = "flag"
          /\ server' = [httpserver_close_flag(server) EXCEPT !.main = "shutdown"]
       \/ /\ server.main = "shutdown"
          /\ server' = [server EXCEPT !.shutdown_request = TRUE, !.main = "wait"]
       \/ /\ server.main = "wait"
          /\ server.is_shut_down
          /\ server' = [server EXCEPT !.main = "done"]
    /\ UNCHANGED <<enumvars, live, maxv, minv, clamp, _val, observers, nodes,
                   called, last, oblock, pageid, thr>>

\* serve_forever takes a request for a streaming page and starts its handler
\* thread, which runs do_GET up to its loop: an updatestream whose first
\* data fetch fails and a camstream without a source end at once
serve_forever_request(t) ==
    /\ live = "http"
    /\ server.sthread = "serve"
    /\ ~server.shutdown_request
    /\ thr[t].pc = "idle"
    /\ \E type \in StreamTypes, ok \in BOOLEAN :
        thr' = [thr EXCEPT ![t] =
                  [pc |-> IF ~ok THEN "done"
                          ELSE IF type = "updatestream" THEN "send" ELSE "while",
                   type |-> type, running |-> ok]]
    /\ UNCHANGED <<enumvars, live, maxv, minv, clamp, _val, observers, nodes,
                   called, last, oblock, pageid, server>>

\* serve_forever sees the shutdown request and leaves its loop
serve_forever_exit ==
    /\ live = "http"
    /\ server.sthread = "serve"
    /\ server.shutdown_request
    /\ server' = [server EXCEPT !.sthread = "done", !.is_shut_down = TRUE]
    /\ UNCHANGED <<enumvars, live, maxv, minv, clamp, _val, observers, nodes,
                   called, last, oblock, pageid, thr>>

\* the keys of the update lists whose hasexpired() is true, in dict order
RECURSIVE httpserver_deadlist(_, _)
httpserver_deadlist(items, lists) ==
    IF items = <<>> THEN <<>>
    ELSE IF lists[Head(items)[2]].expired
         THEN <<Head(items)[1]>> \o httpserver_deadlist(Tail(items), lists)
         ELSE httpserver_deadlist(Tail(items), lists)

\* dict.pop(key) of a key the dict has: the items without that key
DictPop(items, key) ==
    Pop(items, CHOOSE i \in 1..Len(items) : items[i][1] = key)

\* one step of the runner thread on the server srv: the loop test, then
\* under slock the dead keys are collected ("lock") and each is popped and
\* its list closed ("pop"), then the lock is released and the thread sleeps
httpserver_runner_step(srv) ==
    CASE srv.listchecker = "while" ->
            [srv EXCEPT !.listchecker = IF srv.serverrunning THEN "lock" ELSE "done"]
      [] srv.listchecker = "lock" ->
            LET dead == httpserver_deadlist(srv.activeupdates, srv.lists)
            IN [srv EXCEPT !.deadlist = dead,
                           !.slock = IF dead = <<>> THEN "" ELSE "listchecker",
                           !.listchecker = IF dead = <<>> THEN "sleep" ELSE "pop"]
      [] srv.listchecker = "pop" ->
            LET k == Head(srv.deadlist)
                uplist == GetKey(srv.activeupdates, k)
                rest == Tail(srv.deadlist)
            IN [srv EXCEPT !.activeupdates = DictPop(@, k),
                           !.lists[uplist].closed = @ + 1,
                           !.deadlist = rest,
                           !.slock = IF rest = <<>> THEN "" ELSE "listchecker",
                           !.listchecker = IF rest = <<>> THEN "sleep" ELSE "pop"]
      [] srv.listchecker = "sleep" ->
            [srv EXCEPT !.listchecker = "while"]

\* httpserver.runner: while self.serverrunning: clean up under slock, sleep
httpserver_runner ==
    /\ live = "http"
    /\ server.listchecker \in {"while", "lock", "pop", "sleep"}
    /\ server.listchecker = "lock" => server.slock = ""
    /\ server' = httpserver_runner_step(server)
    /\ UNCHANGED <<enumvars, live, maxv, minv, clamp, _val, observers, nodes,
                   called, last, oblock, pageid, thr>>

\* the loop of the updatestream branch of do_GET: the data is sent (a broken
\* pipe clears running, any other failure ends the handler), then after the
\* sleep the server's flag is looked at and new data fetched, then the loop
\* condition is tested
do_GET_updatestream(t) ==
    /\ live = "http"
    /\ thr[t].type = "updatestream"
    /\ \/ /\ thr[t].pc = "send"
          /\ \/ thr' = [thr EXCEPT ![t].pc = "check"]
             \/ thr' = [thr EXCEPT ![t].pc = "check", ![t].running = FALSE]
             \/ thr' = [thr EXCEPT ![t].pc = "done", ![t].running = FALSE]
       \/ /\ thr[t].pc = "check"
          /\ thr' = [thr EXCEPT ![t].pc = "while",
                                ![t].running = @ /\ server.serverrunning]
       \/ /\ thr[t].pc = "while"
          /\ thr' = [thr EXCEPT ![t].pc = IF thr[t].running THEN "send" ELSE "done"]
    /\ UNCHANGED <<enumvars, live, maxv, minv, clamp, _val, observers, nodes,
                   called, last, oblock, pageid, server>>

\* the loop of the camstream branch of do_GET: while running and the server
\* runs, a frame is fetched and written (StopIteration and a broken pipe
\* clear running, any other failure leaves the loop)
do_GET_camstream(t) ==
    /\ live = "http"
    /\ thr[t].type = "camstream"
    /\ \/ /\ thr[t].pc = "while"
          /\ thr' = [thr EXCEPT ![t].pc =
                       IF thr[t].running /\ server.serverrunning THEN "frame" ELSE "done"]
       \/ /\ thr[t].pc = "frame"
          /\ \/ thr' = [thr EXCEPT ![t].pc = "while"]
             \/ thr' = [thr EXCEPT ![t].pc = "while", ![t].running = FALSE]
             \/ thr' = [thr EXCEPT ![t].pc = "done", ![t].running = FALSE]
    /\ UNCHANGED <<enumvars, live, maxv, minv, clamp, _val, observers, nodes,
                   called, last, oblock, pageid, server>>

NextServe ==
    \/ runmain_interrupt
    \/ httpserver_close
    \/ serve_forever_exit
    \/ httpserver_runner
    \/ \E t \in Threads :
        \/ serve_forever_request(t)
        \/ do_GET_updatestream(t)
        \/ do_GET_camstream(t)

\* every thread that can take a step eventually takes one; when the
\* interrupt and the requests come is up to the environment
FairServe ==
    /\ WF_vars(httpserver_close)
    /\ WF_vars(serve_forever_exit)
    /\ WF_vars(httpserver_runner)
    /\ \A t \in Threads : WF_vars(do_GET_updatestream(t) \/ do_GET_camstream(t))

\* the running service
SpecServe == runmain_init /\ [][NextServe]_vars /\ FairServe

----------------------------------------------------------------------------
(* basichttpserver.py : the update lists of a running server. A handler    *)
(* thread serving a 'makedynampage' request calls makepageref, makes a     *)
(* pageupdatelist with that page id and, if the page has links, calls      *)
(* addupdatelist; the runner thread discards the expired lists             *)

\* a new pagelink.pageupdatelist: not expired, closelist() not called yet
pageupdatelist(id) == [pageid |-> id, expired |-> FALSE, closed |-> 0]

\* the server of runmain_init with handler threads that serve
\* 'makedynampage' requests; added counts the page refs of a thread whose
\* request has reached the end of do_GET
httpserver_lists_init ==
    /\ live = "http"
    /\ NoEnum
    /\ oblock = 0
    /\ pageid = 972
    /\ server = httpserver_new
    /\ thr = [t \in Threads |->
                [pc |-> "idle", tmp |-> 0, refs |-> <<>>, added |-> 0]]
    /\ maxv = None /\ minv = None /\ clamp = FALSE /\ _val = 0
    /\ observers = <<>>
    /\ nodes = <<>>
    /\ called = <<>>
    /\ last = [op |-> "init"]

\* the end of do_GET for a 'makedynampage' request whose makepageref has
\* returned: with haslinks() the list is stored under its page id
\* (addupdatelist, under slock), without it the list is dropped
httpserver_addupdatelist(t) ==
    /\ live = "http"
    /\ thr[t].pc = "idle"
    /\ thr[t].added < Len(thr[t].refs)
    /\ thr' = [thr EXCEPT ![t].added = @ + 1]
    /\ \E haslinks \in BOOLEAN :
        IF haslinks
        THEN /\ server.slock = ""
             /\ Len(server.lists) < MaxLists
             /\ LET ulist == pageupdatelist(thr[t].refs[thr[t].added + 1])
                IN server' = [server EXCEPT
                      !.lists = Append(@, ulist),
                      !.activeupdates =
                          SetKey(@, ulist.pageid, Len(server.lists) + 1)]
        ELSE server' = server
    /\ UNCHANGED <<enumvars, live, maxv, minv, clamp, _val, observers, nodes,
                   called, last, oblock, pageid>>

\* time passes without a request for the updates of list i: from now on
\* its hasexpired() is true
pageupdatelist_hasexpired(i) ==
    /\ live = "http"
    /\ i \in 1..Len(server.lists)
    /\ ~server.lists[i].expired
    /\ server' = [server EXCEPT !.lists[i].expired = TRUE]
    /\ UNCHANGED <<enumvars, live, maxv, minv, clamp, _val, observers, nodes,
                   called, last, oblock, pageid, thr>>

NextLists ==
    \/ runmain_interrupt
    \/ httpserver_close
    \/ serve_forever_exit
    \/ httpserver_runner
    \/ \E t \in Threads :
        \/ makepageref_call(t)
        \/ makepageref_load(t)
        \/ makepageref_store(t)
        \/ makepageref_return(t)
        \/ httpserver_addupdatelist(t)
    \/ \E i \in 1..MaxLists : pageupdatelist_hasexpired(i)

\* the runner thread and the shutdown always get their turn; requests and
\* the expiry of a list are up to the environment
FairLists ==
    /\ WF_vars(httpserver_close)
    /\ WF_vars(serve_forever_exit)
    /\ WF_vars(httpserver_runner)

\* a running server whose pages register update lists
SpecLists == httpserver_lists_init /\ [][NextLists]_vars /\ FairLists

----------------------------------------------------------------------------
(* basichttpserver.py : httprequh.do_GET, the routing of a request *)

\* the request types do_GET has a branch for
RequTypes ==
    {"makestaticpage", "updatewv", "makedynampage", "updatestream",
     "camstream", "vidstream", "redirect", "query"}

\* config['GET'] entries by key: a (request type, data) pair, or something
\* that does not unpack into two
GetEntries ==
    [k \in {"index", "upd", "dyn", "stream", "cam", "vid", "home", "q", "odd",
            "bad", "static/a.css", ""} |->
       CASE k = "index" -> <<"makestaticpage", "f_index">>
         [] k = "upd" -> <<"updatewv", "none">>
         [] k = "dyn" -> <<"makedynampage", "f_dyn">>
         [] k = "stream" -> <<"updatestream", "f_stream">>
         [] k = "cam" -> <<"camstream", "f_cam">>
         [] k = "vid" -> <<"vidstream", "f_vid">>
         [] k = "home" -> <<"redirect", "/index">>
         [] k = "q" -> <<"query", "f_q">>
         [] k = "odd" -> <<"nosuchtype", "f_odd">>
         [] k = "bad" -> <<"makestaticpage">>
         [] k = "static/a.css" -> <<"makestaticpage", "f_shadowed">>
         [] OTHER -> <<"redirect", "/index">>]

\* the configs a server is given: without a 'GET' entry, with an empty one,
\* with the entries above
ConfigArgs ==
    {[staticroot |-> "www"],
     [staticroot |-> "www", GET |-> <<>>],
     [staticroot |-> "www", GET |-> GetEntries]}

\* request targets (self.path); none holds a ';' or starts with '//'
RequestArgs ==
    {"/static/a.css", "/static", "/staticfile", "/static/a.css?v=1", "/index",
     "/index?x=1", "/index#top", "/upd", "/dyn", "/stream", "/cam", "/vid",
     "/home", "/q", "/odd", "/bad", "/", "/nothere", "/index/", "/INDEX",
     "/x/static/a.css"}

\* urlparse(self.path).path: the target up to its first '?' or '#'
RECURSIVE urlparse_path(_, _)
urlparse_path(url, i) ==
    IF i > Len(url) THEN url
    ELSE IF SubSeq(url, i, i) \in {"?", "#"} THEN SubSeq(url, 1, i - 1)
    ELSE urlparse_path(url, i + 1)

\* str.startswith
startswith(string, prefix) ==
    Len(string) >= Len(prefix) /\ SubSeq(string, 1, Len(prefix)) = prefix

\* servestatic: the file is sent if it is there and its suffix has a mime type
servestatic(isfile, hasmime) ==
    IF ~isfile THEN 404 ELSE IF ~hasmime THEN 501 ELSE 200

\* variant of do_GET that looks the path up in config['GET'] before it looks
\* for the '/static' prefix
do_GET_lookupfirst(config, path, isfile, hasmime) ==
    LET parsedpath == urlparse_path(path, 1)
        pathlookup == SubSeq(parsedpath, 2, Len(parsedpath))
    IN IF "GET" \in DOMAIN config /\ pathlookup \in DOMAIN config.GET
          /\ Len(config.GET[pathlookup]) = 2
          /\ config.GET[pathlookup][1] \in RequTypes
       THEN [branch |-> config.GET[pathlookup][1], resp |-> 0,
             app |-> <<config.GET[pathlookup][2]>>]
       ELSE IF startswith(parsedpath, "/static")
       THEN [branch |-> "servestatic", resp |-> servestatic(isfile, hasmime), app |-> <<>>]
       ELSE [branch |-> "none", resp |-> 404, app |-> <<>>]

\* do_GET up to the branch it selects: the branch that runs, the response
\* where do_GET itself sends one (0 where the branch and the app decide),
\* and the config data handed to the branch
do_GET(config, path, isfile, hasmime) ==
    LET parsedpath == urlparse_path(path, 1)
        pathlookup == SubSeq(parsedpath, 2, Len(parsedpath))
    IN IF startswith(parsedpath, "/static")
       THEN [branch |-> "servestatic", resp |-> servestatic(isfile, hasmime), app |-> <<>>]
       ELSE IF "GET" \notin DOMAIN config
       THEN [branch |-> "none", resp |-> 501, app |-> <<>>]
       ELSE IF pathlookup \notin DOMAIN config.GET
       THEN [branch |-> "none", resp |-> 404, app |-> <<>>]
       ELSE IF Len(config.GET[pathlookup]) # 2
       THEN [branch |-> "none", resp |-> 404, app |-> <<>>]
       ELSE LET requtype == config.GET[pathlookup][1]
                requdata == config.GET[pathlookup][2]
            IN IF requtype \in RequTypes
               THEN [branch |-> requtype,
                     resp |-> IF requtype = "redirect" THEN 301 ELSE 0,
                     app |-> <<requdata>>]
               ELSE [branch |-> "none", resp |-> 404, app |-> <<>>]

\* httpserver(..., config=config): a server and no request yet
httpserver_init ==
    /\ live = "http"
    /\ NoEnum
    /\ oblock = 0
    /\ pageid = 972
    /\ \E config \in ConfigArgs : server = [serverrunning |-> TRUE, config |-> config]
    /\ thr = <<>>
    /\ maxv = None /\ minv = None /\ clamp = FALSE /\ _val = 0
    /\ observers = <<>>
    /\ nodes = <<>>
    /\ called = <<>>
    /\ last = [op |-> "init"]

\* one GET request handled from start to end; the 'makedynampage' branch
\* takes a page id from makepageref
do_GET_call ==
    /\ live = "http"
    /\ "config" \in DOMAIN server
    /\ \E path \in RequestArgs, isfile \in BOOLEAN, hasmime \in BOOLEAN :
        LET r == do_GET(server.config, path, isfile, hasmime)
        IN /\ pageid' = IF r.branch = "makedynampage" THEN pageid + 1 ELSE pageid
           /\ pageid' <= 972 + MaxCalls
           /\ last' = [op |-> "GET", path |-> path, branch |-> r.branch,
                       resp |-> r.resp, app |-> r.app]
    /\ UNCHANGED <<enumvars, live, maxv, minv, clamp, _val, observers, nodes,
                   called, oblock, server, thr>>

NextGet == do_GET_call

\* a server answering GET requests one after the other
SpecGet == httpserver_init /\ [][NextGet]_vars

----------------------------------------------------------------------------
(* Properties *)

\* the callbacks registered for an agent in an agent -> list mapping
RegsFor(obs, agent) == IF agent \in DOMAIN obs THEN obs[agent] ELSE <<>>

\* the calls that call each callback of a list once, in order
CallsOf(regs, old, new, agent) ==
    [i \in 1..Len(regs) |->
        [ob |-> regs[i], oldValue |-> old, newValue |-> new, agent |-> agent]]

\* an integer lies within optional bounds
InRange(v, lo, hi) == (lo = None \/ v >= lo[1]) /\ (hi = None \/ v <= hi[1])

\* an integer moved to the nearest value within optional bounds
Clamped(v, lo, hi) ==
    IF lo # None /\ v < lo[1] THEN lo[1]
    ELSE IF hi # None /\ v > hi[1] THEN hi[1] ELSE v

\* C1: watchable.setValue(value, agent) on an intWatch that returns: if
\* validValue(value) differs from the stored value, that value is stored, each
\* callback registered for the agent is called once per registration with the
\* previous and the new stored value, and True is returned; otherwise nothing
\* is stored, nothing is called and False is returned.
C1_SetValueContract ==
    [][(live = "watchables" /\ last'.op = "setValue" /\ last'.exc = "") =>
         LET nv == intWatch_validValue(last'.value, last'.agent).v
         IN IF nv # _val
            THEN /\ _val' = nv
                 /\ called' = CallsOf(RegsFor(observers, last'.agent), _val, _val',
                                      last'.agent)
                 /\ last'.ret = "True"
            ELSE /\ _val' = _val
                 /\ called' = <<>>
                 /\ last'.ret = "False"]_vars

\* C1 witness: a setValue that changed the value and called two observers
C1_Witness ==
    /\ live = "watchables"
    /\ last.op = "setValue"
    /\ last.ret = "True"
    /\ Len(called) = 2
    /\ called[1].oldValue # _val
    /\ called[2].newValue = _val

\* the object a step of the pvars generation acted on
StepVar == nodes[last'.self]

\* C2: in both generations a step calls only callbacks registered for the agent
\* that made the change, and a step that changes the value calls every callback
\* registered for that agent.
C2_AgentFiltered ==
    [][/\ (live = "watchables" /\ last'.op \in {"setValue", "increment"}) =>
            /\ \A i \in 1..Len(called') :
                  /\ called'[i].agent = last'.agent
                  /\ \E j \in 1..Len(RegsFor(observers, last'.agent)) :
                        observers[last'.agent][j] = called'[i].ob
            /\ _val' # _val =>
                  \A j \in 1..Len(RegsFor(observers, last'.agent)) :
                     \E i \in 1..Len(called') : called'[i].ob = observers[last'.agent][j]
       /\ (live = "pvars" /\ last'.op \in {"setValue", "increment"}) =>
            /\ \A i \in 1..Len(called') :
                  /\ called'[i].agent = last'.agent
                  /\ \E j \in 1..Len(RegsFor(StepVar.onChange, last'.agent)) :
                        StepVar.onChange[last'.agent][j] = called'[i].ob
            /\ nodes'[last'.self]._lvvalue # StepVar._lvvalue =>
                  \A j \in 1..Len(RegsFor(StepVar.onChange, last'.agent)) :
                     \E i \in 1..Len(called') :
                        called'[i].ob = StepVar.onChange[last'.agent][j]
       /\ last'.op \notin {"setValue", "increment"} => called' = <<>>]_vars

\* C2 witness: cb1 is registered for app only and cb2 for user only, and a
\* change made by user called cb2 and not cb1
C2_Witness ==
    /\ live = "pvars"
    /\ last.op = "setValue"
    /\ last.agent = "user"
    /\ last.ret = "True"
    /\ RegsFor(nodes[last.self].onChange, "app") = <<"cb1">>
    /\ RegsFor(nodes[last.self].onChange, "user") = <<"cb2">>
    /\ Len(called) = 1
    /\ called[1].ob = "cb2"

\* C3: constructing a treeob under a parent that already has a child of that
\* name raises ValueError and leaves the parent's existing child in place.
C3_DuplicateNameRaises ==
    [][(live = "ptree" /\ last'.op = "treeob"
          /\ HasKey(nodes[last'.parent].items, last'.name)) =>
         /\ last'.exc = "ValueError"
         /\ GetKey(nodes'[last'.parent].items, last'.name)
              = GetKey(nodes[last'.parent].items, last'.name)]_vars

\* what C4 says a path selects: from the root after a leading separator, else
\* from the node, then a child per name and the parent per '..'
RECURSIVE C4_Follow(_, _)
C4_Follow(cnode, comps) ==
    IF comps = <<>> THEN cnode
    ELSE IF cnode = 0 THEN 0
    ELSE IF Head(comps) = ".." THEN C4_Follow(nodes[cnode].parent, Tail(comps))
    ELSE IF HasKey(nodes[cnode].items, Head(comps))
    THEN C4_Follow(GetKey(nodes[cnode].items, Head(comps)), Tail(comps))
    ELSE 0

C4_Selected(self, nname) ==
    LET comps == split(nname)
    IN IF Len(comps) > 1 /\ comps[1] = ""
       THEN C4_Follow(nodes[self].app, Tail(comps))
       ELSE C4_Follow(self, comps)

\* the paths C4 speaks of: names and '..' separated by single separators,
\* with or without a leading separator
C4_Plain(nname) ==
    LET comps == split(nname)
    IN /\ nname # <<>>
       /\ \A i \in 2..Len(comps) : comps[i] # ""
       /\ Len(comps) = 1 => comps[1] # ""

\* C4: node[path] resolves the path like a filesystem path, component by
\* component: whenever the path selects an object, that object is returned.
C4_PathLookup ==
    (live = "ptree" /\ last.op = "getitem" /\ C4_Plain(last.nname)
       /\ C4_Selected(last.self, last.nname) # 0) =>
         /\ last.exc = ""
         /\ last.ret = C4_Selected(last.self, last.nname)

C6_UnknownAgentRaises ==
    [][(live = "pvars" /\ last'.op \in {"setValue", "groupSetValue"}
          /\ ~InAgents(last'.agent)) =>
         /\ last'.exc = "RuntimeError"
         /\ nodes' = nodes
         /\ called' = <<>>]_vars

\* C6 witness: setValue by an unknown agent, with a different value, on an
\* intVar that has a callback, raised RuntimeError
C6_Witness ==
    /\ live = "pvars"
    /\ last.op = "setValue"
    /\ last.agent = "ghost"
    /\ last.exc = "RuntimeError"
    /\ nodes[last.self].onChange # <<>>
    /\ nodes[last.self]._lvvalue # Some(last.value)

\* C7: with clamp and minv <= maxv, a setValue or increment (by a valid agent)
\* on an intWatch or intVar whose value is within [minv, maxv] does not raise
\* and stores the requested value moved into the range: the value stays within
\* the range, a None bound being no bound.
C7_ClampKeepsRange ==
    [][/\ (live = "watchables" /\ clamp /\ last'.op \in {"setValue", "increment"}
             /\ (minv # None /\ maxv # None => minv[1] <= maxv[1])
             /\ InRange(_val, minv, maxv)) =>
            /\ last'.exc = ""
            /\ InRange(_val', minv, maxv)
            /\ _val' = Clamped(last'.value, minv, maxv)
       /\ (live = "pvars" /\ last'.op \in {"setValue", "increment"}
             /\ StepVar.clamp /\ InAgents(last'.agent)
             /\ (StepVar.minv # None /\ StepVar.maxv # None
                   => StepVar.minv[1] <= StepVar.maxv[1])
             /\ StepVar._lvvalue # None
             /\ InRange(StepVar._lvvalue[1], StepVar.minv, StepVar.maxv)) =>
            /\ last'.exc = ""
            /\ nodes'[last'.self]._lvvalue # None
            /\ InRange(nodes'[last'.self]._lvvalue[1], StepVar.minv, StepVar.maxv)
            /\ nodes'[last'.self]._lvvalue[1]
                 = Clamped(last'.value, StepVar.minv, StepVar.maxv)]_vars

\* C7 witness: an increment past maxv on a clamped intWatch stored maxv
C7_Witness ==
    /\ live = "watchables"
    /\ clamp
    /\ minv = None
    /\ maxv # None
    /\ last.op = "increment"
    /\ last.exc = ""
    /\ last.value > maxv[1]
    /\ _val = maxv[1]

\* C8: without clamp, setValue (by a valid agent) with an integer outside
\* [minv, maxv] raises ValueError, stores nothing and calls nothing; an integer
\* inside the range is stored as it is.
C8_NoClampRejects ==
    [][/\ (live = "watchables" /\ ~clamp /\ last'.op = "setValue") =>
            IF InRange(last'.value, minv, maxv)
            THEN last'.exc = "" /\ _val' = last'.value
            ELSE last'.exc = "ValueError" /\ _val' = _val /\ called' = <<>>
       /\ (live = "pvars" /\ last'.op = "setValue" /\ ~StepVar.clamp
             /\ InAgents(last'.agent)) =>
            IF InRange(last'.value, StepVar.minv, StepVar.maxv)
            THEN last'.exc = "" /\ nodes'[last'.self]._lvvalue = Some(last'.value)
            ELSE last'.exc = "ValueError" /\ nodes' = nodes /\ called' = <<>>]_vars

\* C8 witness: an out-of-range setValue on an unclamped intVar, by an agent
\* that has a callback registered, raised ValueError
C8_Witness ==
    /\ live = "pvars"
    /\ last.op = "setValue"
    /\ ~nodes[last.self].clamp
    /\ last.exc = "ValueError"
    /\ nodes[last.self]._lvvalue # None
    /\ RegsFor(nodes[last.self].onChange, last.agent) # <<>>
    /\ ~InRange(last.value, nodes[last.self].minv, nodes[last.self].maxv)

\* the child named n of a group
Child(objs, self, n) == objs[GetKey(objs[self].items, n)]

\* the names of a mapping
MapKeys(value) == {value.dict[i][1] : i \in 1..Len(value.dict)}

\* C9: groupVar.setValue(value, agent) with a known agent and a mapping from
\* names of intVar children to integers valid for them updates each named child
\* to its validated value and leaves every other object unchanged.
C9_GroupSetValueUpdates ==
    [][(live = "pvars" /\ last'.op = "groupSetValue" /\ InAgents(last'.agent)
          /\ \A i \in 1..Len(last'.value.dict) :
                /\ HasKey(StepVar.items, last'.value.dict[i][1])
                /\ "leaf" \in DOMAIN last'.value.dict[i][2]
                /\ Child(nodes, last'.self, last'.value.dict[i][1]).cls = "intVar"
                /\ intVar_validValue(Child(nodes, last'.self, last'.value.dict[i][1]),
                                     last'.value.dict[i][2].leaf, last'.agent).exc = "") =>
         /\ last'.exc = ""
         /\ \A i \in 1..Len(last'.value.dict) :
               Child(nodes', last'.self, last'.value.dict[i][1])._lvvalue
                 = intVar_validValue(Child(nodes, last'.self, last'.value.dict[i][1]),
                                     last'.value.dict[i][2].leaf, last'.agent).v
         /\ \A n \in 1..Len(nodes) :
               (\A k \in MapKeys(last'.value) : GetKey(StepVar.items, k) # n)
                  => nodes'[n] = nodes[n]]_vars

\* C10: groupVar.getValue returns one entry per child, in the children's
\* insertion order, each the child's name with the child's getValue() (a leaf's
\* stored value, a group's own mapping), and changes no object.
C10_GroupGetValue ==
    [][(live = "pvars" /\ last'.op = "getValue") =>
         LET its == StepVar.items
             ret == last'.ret
         IN /\ nodes' = nodes
            /\ Len(ret) = Len(its)
            /\ \A i \in 1..Len(its) :
                  /\ ret[i][1] = its[i][1]
                  /\ \A j \in 1..Len(its) : ret[j][1] = ret[i][1] => j = i
                  /\ ret[i][2] =
                       IF IsGroup(nodes[its[i][2]])
                       THEN [dict |-> groupVar_getValue(nodes, its[i][2])]
                       ELSE [leaf |-> nodes[its[i][2]]._lvvalue]]_vars

\* C10 witness: getValue of a root with a leaf and then a group that holds a leaf
C10_Witness ==
    /\ live = "pvars"
    /\ last.op = "getValue"
    /\ last.self = 1
    /\ Len(last.ret) = 2
    /\ "leaf" \in DOMAIN last.ret[1][2]
    /\ "dict" \in DOMAIN last.ret[2][2]
    /\ Len(last.ret[2][2].dict) = 1

----------------------------------------------------------------------------
(* C11 : slices of a node's children *)

\* Python's own slicing of a list of length kl (slice.indices): the list of
\* positions selected, counted from 0
C11_PyStep(step) == IF step = None THEN 1 ELSE step[1]

C11_PyBound(kl, b, step, whenNone) ==
    IF b = None THEN whenNone
    ELSE LET x == IF b[1] < 0 THEN b[1] + kl ELSE b[1]
         IN IF x < 0 THEN (IF step < 0 THEN 0 - 1 ELSE 0)
            ELSE IF x >= kl THEN (IF step < 0 THEN kl - 1 ELSE kl)
            ELSE x

C11_PySlice(kl, start, stop, step) ==
    LET st == C11_PyStep(step)
    IN range(C11_PyBound(kl, start, st, IF st < 0 THEN kl - 1 ELSE 0),
             C11_PyBound(kl, stop, st, IF st < 0 THEN 0 - 1 ELSE kl), st)

\* C11: node[start:stop:step] returns the children that Python's slicing of
\* the node's list of children selects, in the same order, for every start,
\* stop and step (a step of 0 is refused by both).
C11_SliceAsPython ==
    last.op = "getslice" =>
        LET keys == nodes[last.self].items
        IN IF last.step = Some(0)
           THEN last.exc = "ValueError"
           ELSE LET sel == C11_PySlice(Len(keys), last.start, last.stop, last.step)
                IN /\ last.exc = ""
                   /\ last.ret = [i \in 1..Len(sel) |-> keys[sel[i] + 1]]

----------------------------------------------------------------------------
(* C12, C13, C15 : enumVar and the constructor's fallback *)

\* the enumVar a step acts on holds an index into its list before the step
C12_Indexed(self) ==
    /\ IsInt(nodes[self]._lvvalue)
    /\ nodes[self]._lvvalue.int >= 0
    /\ nodes[self]._lvvalue.int < Len(nodes[self].vlist)

\* what the modes promise for an index moved to newind, outside the list
C12_Policy(self, newind) ==
    LET kl == Len(nodes[self].vlist)
        mode == nodes[self].mode
    IN IF mode = "abs"
       THEN last'.exc = "ValueError" /\ nodes' = nodes /\ called' = <<>>
       ELSE /\ last'.exc = ""
            /\ nodes'[self]._lvvalue =
                  EInt(IF mode = "wrap" THEN newind % kl
                       ELSE IF newind < 0 THEN 0 ELSE kl - 1)

\* C12: an increment by a known agent that moves the index past either end of
\* vlist follows the mode: 'clamp' stops at the last (adding) or first
\* (subtracting) entry, 'wrap' wraps around, 'abs' raises ValueError and
\* leaves the value unchanged.
C12_IncrementFollowsMode ==
    [][(last'.op = "enumIncrement" /\ InAgents(last'.agent) /\ C12_Indexed(last'.self))
         => LET newind == nodes[last'.self]._lvvalue.int + last'.incval
            IN (newind < 0 \/ newind >= Len(nodes[last'.self].vlist))
                 => C12_Policy(last'.self, newind)]_vars

\* C13: setVlist by a known agent with a list different from the current one
\* replaces the list, returns True, and leaves getValue() at the previous
\* value if the new list holds it and at the new list's first entry
\* otherwise; with an equal list it changes nothing, notifies nobody and
\* returns False.
C13_SetVlistKeepsValue ==
    [][(last'.op = "setVlist" /\ InAgents(last'.agent) /\ C12_Indexed(last'.self))
         => LET self == last'.self
                prev == enumVar_getValue(nodes[self]).v
            IN IF last'.vlist = nodes[self].vlist
               THEN nodes' = nodes /\ called' = <<>> /\ last'.ret = "False" /\ last'.exc = ""
               ELSE /\ last'.exc = "" /\ last'.ret = "True"
                    /\ nodes'[self].vlist = last'.vlist
                    /\ enumVar_getValue(nodes'[self]) =
                          [exc |-> "",
                           v |-> IF Index(last'.vlist, prev) # 0 THEN prev
                                 ELSE last'.vlist[1]]]_vars

\* the value a constructor's argument stands for once validated: None when
\* validValue refuses it, else what getValue() returns after it is stored
C15_Validated(self, value) ==
    IF nodes[self].cls = "intVar"
    THEN LET r == intVar_validValue(nodes[self], value, agentlist[1])
         IN IF r.exc = "" THEN r.v ELSE None
    ELSE LET r == enumVar_validValue(nodes[self], value, agentlist[1])
         IN IF r.exc = "" THEN nodes[self].vlist[r.v.int + 1] ELSE None

\* getValue() of a Var
C15_GetValue(self) ==
    IF nodes[self].cls = "intVar" THEN nodes[self]._lvvalue
    ELSE enumVar_getValue(nodes[self]).v

\* C15: right after a constructor of a Var, if it did not raise getValue() is
\* the validated value when the value is valid and the validated
\* fallbackValue otherwise; if neither is valid the constructor raised.
C15_ConstructorFallback ==
    last.op \in {"intVar", "enumVar"} =>
        LET v == C15_Validated(last.self, last.value)
            f == C15_Validated(last.self, last.fallbackValue)
        IN /\ (v = None /\ f = None) => last.exc # ""
           /\ last.exc = "" =>
                C15_GetValue(last.self) = (IF v # None THEN v ELSE f)

\* an intVar was constructed with an invalid value and took its fallbackValue
C15_Witness ==
    /\ last.op = "intVar" /\ last.exc = ""
    /\ C15_Validated(last.self, last.value) = None
    /\ last.fallbackValue # None
    /\ nodes[last.self]._lvvalue = last.fallbackValue

----------------------------------------------------------------------------
(* C14, C16 : enumWatch and btnWatch *)

\* C14: enumWatch.increment by a valid agent on a value of the list: an index
\* inside the list selects vlist[index+inc]; outside it, wrap goes to the
\* opposite end (so increments by 1 from the last entry reach the first),
\* else clamp stays at the nearest end, else ValueError is raised and the
\* value is unchanged.
C14_WatchIncrementPolicy ==
    [][(last'.op = "increment" /\ Index(vlist, _val) # 0)
         => LET newi == Index(vlist, _val) - 1 + last'.inc
                kl == Len(vlist)
            IN IF 0 <= newi /\ newi < kl
               THEN last'.exc = "" /\ _val' = vlist[newi + 1]
               ELSE IF wrap
               THEN last'.exc = "" /\ _val' = (IF newi < 0 THEN vlist[kl] ELSE vlist[1])
               ELSE IF clamp
               THEN last'.exc = "" /\ _val' = (IF newi < 0 THEN vlist[1] ELSE vlist[kl])
               ELSE last'.exc = "ValueError" /\ _val' = _val /\ called' = <<>>]_vars

\* an increment by 1 wrapped from the last entry of a longer list to the first
C14_Witness ==
    /\ vlist # <<>> /\ Len(vlist) > 1 /\ wrap /\ clamp
    /\ last.op = "increment" /\ last.inc = 1 /\ last.exc = "" /\ last.ret = "None"
    /\ _val = vlist[1]
    /\ called # <<>>

\* C16: every btnWatch.setValue with an agent calls each observer registered
\* for that agent once, in order, with oldValue equal to newValue, returns
\* True and leaves the stored value unchanged, whatever value is passed.
C16_ButtonAlwaysNotifies ==
    [][last'.op = "setValue"
         => /\ last'.exc = "" /\ last'.ret = "True"
            /\ _val' = _val
            /\ called' = CallsOf(RegsFor(observers, last'.agent), _val, _val, last'.agent)]_vars

\* a button set to the value it already holds called its two observers
C16_Witness ==
    /\ last.op = "setValue" /\ last.value = _val /\ last.ret = "True"
    /\ Len(called) = 2
    /\ called[1].oldValue = called[1].newValue

----------------------------------------------------------------------------
(* C17 : page ids *)

\* C17: no two calls of makepageref return the same id, whichever handler
\* threads made them and however they overlapped.
C17_PageRefsUnique ==
    \A t1 \in Threads, t2 \in Threads :
        \A k1 \in 1..Len(thr[t1].refs), k2 \in 1..Len(thr[t2].refs) :
            (t1 # t2 \/ k1 # k2) => thr[t1].refs[k1] # thr[t2].refs[k2]

----------------------------------------------------------------------------
(* C18 : a KeyboardInterrupt stops the service *)

\* C18: once runmain has been interrupted in normal mode, eventually the app
\* has been closed, serverrunning is False, serve_forever has shut down, the
\* 'listchecker' runner has left its loop and no updatestream or camstream
\* loop is running.
C18_InterruptStopsService ==
    (server.main # "join") ~>
        ( /\ server.appclosed
          /\ ~server.serverrunning
          /\ server.is_shut_down
          /\ server.main = "done"
          /\ server.listchecker = "done"
          /\ \A t \in Threads : thr[t].pc \in {"idle", "done"} )

\* the service stopped while an updatestream and a camstream had been running
C18_Witness ==
    /\ server.main = "done"
    /\ server.listchecker = "done"
    /\ \E t1 \in Threads, t2 \in Threads :
         /\ thr[t1].pc = "done" /\ thr[t1].type = "updatestream"
         /\ thr[t2].pc = "done" /\ thr[t2].type = "camstream"

----------------------------------------------------------------------------
(* C19 : GET routing *)

\* the path of a request target: what precedes the query and the fragment
C19_Path(target) ==
    LET cut == {i \in 1..Len(target) : SubSeq(target, i, i) \in {"?", "#"}}
    IN IF cut = {} THEN target
       ELSE SubSeq(target, 1, (CHOOSE i \in cut : \A j \in cut : i <= j) - 1)

\* C19: a GET whose path starts with '/static' is served as a static file;
\* otherwise without a 'GET' entry in the config the response is 501; a path
\* (less its leading '/') that is no key of config['GET'] gives 404 and calls
\* nothing of the application; for a key, the branch of the entry's request
\* type, and only it, runs, and an unknown request type gives 404.
C19_GetRouting ==
    last.op = "GET" =>
        LET path == C19_Path(last.path)
            key == SubSeq(path, 2, Len(path))
            config == server.config
        IN IF Len(path) >= 7 /\ SubSeq(path, 1, 7) = "/static"
           THEN last.branch = "servestatic" /\ last.app = <<>>
           ELSE IF "GET" \notin DOMAIN config
           THEN last.resp = 501 /\ last.branch = "none" /\ last.app = <<>>
           ELSE IF key \notin DOMAIN config.GET
           THEN last.resp = 404 /\ last.branch = "none" /\ last.app = <<>>
           ELSE Len(config.GET[key]) = 2 =>
                  IF config.GET[key][1] \in RequTypes
                  THEN last.branch = config.GET[key][1] /\ last.app = <<config.GET[key][2]>>
                  ELSE last.resp = 404 /\ last.branch = "none" /\ last.app = <<>>

\* a request for a static file was served although the config has an entry
\* for the same path
C19_Witness ==
    /\ last.op = "GET" /\ last.path = "/static/a.css"
    /\ "GET" \in DOMAIN server.config
    /\ "static/a.css" \in DOMAIN server.config.GET
    /\ last.branch = "servestatic" /\ last.resp = 200

----------------------------------------------------------------------------
(* C20 : the observer lists under concurrent addNotify and dropNotify *)

\* the observers after one whole call made on its own
C20_Apply(obs, call) ==
    IF call.op = "addNotify"
    THEN IF call.agent \in DOMAIN obs
         THEN [obs EXCEPT ![call.agent] = Append(@, call.ob)]
         ELSE [a \in DOMAIN obs \cup {call.agent} |->
                 IF a = call.agent THEN <<call.ob>> ELSE obs[a]]
    ELSE IF call.agent \in DOMAIN obs /\ Index(obs[call.agent], call.ob) # 0
         THEN [obs EXCEPT ![call.agent] = Pop(@, Index(obs[call.agent], call.ob))]
         ELSE obs

\* the observers after the threads' calls made one after the other in an order
RECURSIVE C20_Sequential(_, _, _)
C20_Sequential(obs, order, k) ==
    IF k > Len(order) THEN obs
    ELSE C20_Sequential(C20_Apply(obs, thr[order[k]].call), order, k + 1)

C20_Orders ==
    {f \in [1..MaxThreads -> 1..MaxThreads] : \A i, j \in 1..MaxThreads : f[i] = f[j] => i = j}

\* C20: when all the concurrent addNotify and dropNotify calls have
\* returned, the per-agent callback lists are those that the same calls leave
\* when made one after the other in some order.
C20_ObserversLinearizable ==
    (\A t \in 1..MaxThreads : thr[t].pc = "done")
        => \E order \in C20_Orders : observers = C20_Sequential(last.observers, order, 1)

\* two threads added a callback each to a watchable that had no observers,
\* and both registrations are there
C20_Witness ==
    /\ \A t \in 1..MaxThreads : thr[t].pc = "done" /\ thr[t].call.op = "addNotify"
    /\ last.observers = <<>>
    /\ NumRegs(observers, DOMAIN observers) = MaxThreads

----------------------------------------------------------------------------
(* C21 : the runner discards the expired update lists *)

\* list i is a value of the dict activeupdates
C21_Active(i) ==
    \E j \in 1..Len(server.activeupdates) : server.activeupdates[j][2] = i

\* list i has been added with addupdatelist and its hasexpired() is true
C21_Expired(i) == i <= Len(server.lists) /\ server.lists[i].expired

\* the number of closelist() calls on list i
C21_Closed(i) == IF i <= Len(server.lists) THEN server.lists[i].closed ELSE 0

\* C21: while the server is running, every update list added with
\* addupdatelist whose hasexpired() is true is eventually out of
\* activeupdates with closelist() called exactly once; no list is closed
\* twice; and a step of the runner that takes a list out of activeupdates
\* takes one whose hasexpired() is true
C21_RunnerDiscardsExpired ==
    /\ \A i \in 1..MaxLists :
          C21_Expired(i)
              ~> (\/ ~server.serverrunning
                  \/ ~C21_Active(i) /\ C21_Closed(i) = 1)
    /\ [](\A i \in 1..MaxLists : C21_Closed(i) <= 1)
    /\ [][\A i \in 1..MaxLists :
            (C21_Active(i) /\ ~C21_Active(i)' /\ C21_Closed(i)' # C21_Closed(i))
                => C21_Expired(i)]_vars

----------------------------------------------------------------------------
(* C22 : concurrent setValue calls give a consistent history *)

\* C22: with several threads in setValue on one watchable that has
\* observers, every notification delivered carries as oldValue the value
\* that was stored immediately before its newValue was stored, and once all
\* calls have returned (each by an agent that has observers) the stored
\* value is the newValue of the notification whose store happened last
C22_ConsistentHistory ==
    /\ \A n \in 1..Len(called) :
          /\ called[n].newValue = last.stores[called[n].store]
          /\ called[n].oldValue = last.stores[called[n].store - 1]
    /\ (\A t \in 1..MaxThreads :
            thr[t].pc = "done" /\ thr[t].agent \in DOMAIN observers)
          => \A n \in 1..Len(called) :
                (\A m \in 1..Len(called) : called[m].store <= called[n].store)
                    => _val = called[n].newValue

----------------------------------------------------------------------------
(* C23 : the settings round trip of a watchablegroup *)

\* C23: applysettings(fetchsettings(), agent) completes without error and
\* leaves the value of every watchable unchanged, and the settings fetched
\* hold exactly the watchables defined as persistent, each with its value
C23_SettingsRoundTrip ==
    last.op = "applysettings" =>
        /\ last.exc = ""
        /\ nodes = last.before
        /\ \A x \in 1..Len(last.before) :
              last.before[x].pers <=>
                  \E y \in 1..Len(last.settings) :
                      last.settings[y] = <<last.before[x].name, last.before[x]._val>>
        /\ \A y \in 1..Len(last.settings) :
              /\ \E x \in 1..Len(last.before) :
                    last.before[x].pers /\ last.before[x].name = last.settings[y][1]
              /\ \A z \in 1..Len(last.settings) :
                    last.settings[z][1] = last.settings[y][1] => z = y

====
